---- MODULE Spec2Model ----
(***************************************************************************)
(* Model of the PDF field-extraction engine of jdstraye/pdf_extract:       *)
(*   src/src/scripts/pdf_color_extraction.py  (extract_pdf_all_fields and  *)
(*   its helpers), scripts/pdf_to_ground_truth.py (build_text_only_gt) and *)
(*   src/extract_pdf_preauth.py (extract_to_canonical).                    *)
(*                                                                         *)
(* Texts are TLA+ strings scanned character by character, Python dicts are *)
(* insertion-ordered sequences of <<key, value>> entries, and Python       *)
(* values are tagged records so that None, ints, strings, dicts and lists  *)
(* stay distinguishable.                                                   *)
(***************************************************************************)
EXTENDS Integers, Sequences, FiniteSets, TLC

(***************************************************************************)
(* Bounds of the model.                                                    *)
(***************************************************************************)
\* longest raw record handed to the Canonicalizer
MaxKeys == 3
\* most lines in a modelled document
MaxLines == 2
\* most pages in a modelled document
MaxPages == 2

(***************************************************************************)
(* Python values.                                                          *)
(***************************************************************************)
NoneV == [none |-> TRUE]
IntV(n) == [int |-> n]
StrV(s) == [str |-> s]
DictV(d) == [dict |-> d]
ListV(l) == [list |-> l]

IsNone(v) == "none" \in DOMAIN v
IsInt(v) == "int" \in DOMAIN v
IsStr(v) == "str" \in DOMAIN v
IsDict(v) == "dict" \in DOMAIN v
IsList(v) == "list" \in DOMAIN v

\* Python truthiness of a value (None, 0, "", {} and [] are falsy)
Truthy(v) ==
  IF IsNone(v) THEN FALSE
  ELSE IF IsInt(v) THEN v.int # 0
  ELSE IF IsStr(v) THEN v.str # ""
  ELSE IF IsDict(v) THEN v.dict # <<>>
  ELSE IF IsList(v) THEN v.list # <<>>
  ELSE TRUE

(***************************************************************************)
(* Insertion-ordered dicts: sequences of [k, v] entries with distinct k.   *)
(***************************************************************************)
Entry(k, v) == [k |-> k, v |-> v]

Keys(d) == [i \in 1..Len(d) |-> d[i].k]

KeySet(d) == {d[i].k : i \in 1..Len(d)}

Has(d, k) == \E i \in 1..Len(d) : d[i].k = k

IndexOf(d, k) == CHOOSE i \in 1..Len(d) : d[i].k = k

\* d.get(k): the value, or None when the key is absent
Get(d, k) == IF Has(d, k) THEN d[IndexOf(d, k)].v ELSE NoneV

\* d[k] = v: an existing key keeps its position, a new key is appended
Put(d, k, v) ==
  IF Has(d, k)
  THEN [i \in 1..Len(d) |-> IF d[i].k = k THEN Entry(k, v) ELSE d[i]]
  ELSE Append(d, Entry(k, v))

\* d.setdefault(k, v)
SetDefault(d, k, v) == IF Has(d, k) THEN d ELSE Append(d, Entry(k, v))

RECURSIVE Remove(_, _)
\* d.pop(k, None)
Remove(d, k) ==
  IF d = <<>> THEN <<>>
  ELSE IF Head(d).k = k THEN Tail(d)
  ELSE <<Head(d)>> \o Remove(Tail(d), k)

(***************************************************************************)
(* Strings.                                                                *)
(***************************************************************************)
Ch(s, i) == SubSeq(s, i, i)

\* s.startswith(p)
StartsWith(s, p) == Len(s) >= Len(p) /\ SubSeq(s, 1, Len(p)) = p

\* s.endswith(p)
EndsWith(s, p) == Len(s) >= Len(p) /\ SubSeq(s, Len(s) - Len(p) + 1, Len(s)) = p

\* sub occurs in s starting at position i
At(s, i, sub) == i >= 1 /\ i + Len(sub) - 1 <= Len(s) /\ SubSeq(s, i, i + Len(sub) - 1) = sub

\* sub in s
Contains(s, sub) == \E i \in 1..(Len(s) - Len(sub) + 1) : At(s, i, sub)

\* the characters str.strip() and \s treat as white space
IsSpace(c) == c \in {" ", "\n", "\t"}

DigitChars == "0123456789"

DigitSet == {Ch(DigitChars, d) : d \in 1..10}

\* c is one of 0..9
IsDigit(c) == c \in DigitSet

DigitVal(c) == (CHOOSE d \in 1..10 : Ch(DigitChars, d) = c) - 1

\* the lower case of each upper-case letter
LowerOf ==
  [A |-> "a", B |-> "b", C |-> "c", D |-> "d", E |-> "e", F |-> "f", G |-> "g",
   H |-> "h", I |-> "i", J |-> "j", K |-> "k", L |-> "l", M |-> "m", N |-> "n",
   O |-> "o", P |-> "p", Q |-> "q", R |-> "r", S |-> "s", T |-> "t", U |-> "u",
   V |-> "v", W |-> "w", X |-> "x", Y |-> "y", Z |-> "z"]

\* the upper case of each lower-case letter
UpperOf ==
  [a |-> "A", b |-> "B", c |-> "C", d |-> "D", e |-> "E", f |-> "F", g |-> "G",
   h |-> "H", i |-> "I", j |-> "J", k |-> "K", l |-> "L", m |-> "M", n |-> "N",
   o |-> "O", p |-> "P", q |-> "Q", r |-> "R", s |-> "S", t |-> "T", u |-> "U",
   v |-> "V", w |-> "W", x |-> "X", y |-> "Y", z |-> "Z"]

LowerCh(c) == IF c \in DOMAIN LowerOf THEN LowerOf[c] ELSE c

\* [A-Za-z]
IsLetter(c) == c \in DOMAIN LowerOf \/ c \in DOMAIN UpperOf

RECURSIVE Lower(_)
\* s.lower(), character by character (the string is taken by halves)
Lower(s) ==
  IF Len(s) <= 1 THEN LowerCh(s)
  ELSE Lower(SubSeq(s, 1, Len(s) \div 2)) \o Lower(SubSeq(s, Len(s) \div 2 + 1, Len(s)))

\* c is a word character of \w and \b
IsWordCh(c) == IsDigit(c) \/ c = "_" \/ IsLetter(c)

RECURSIVE LStrip(_)
LStrip(s) == IF s # "" /\ IsSpace(Ch(s, 1)) THEN LStrip(SubSeq(s, 2, Len(s))) ELSE s

RECURSIVE RStrip(_)
RStrip(s) == IF s # "" /\ IsSpace(Ch(s, Len(s))) THEN RStrip(SubSeq(s, 1, Len(s) - 1)) ELSE s

\* s.strip()
Strip(s) == RStrip(LStrip(s))

\* s.isdigit()
IsDigitStr(s) == s # "" /\ \A i \in 1..Len(s) : IsDigit(Ch(s, i))

RECURSIVE OnlyDigits(_)
\* re.sub(r"[^0-9]", "", s), also s.replace(',', '') on a [0-9,]+ match
OnlyDigits(s) ==
  IF Len(s) <= 1 THEN (IF IsDigit(s) THEN s ELSE "")
  ELSE OnlyDigits(SubSeq(s, 1, Len(s) \div 2))
       \o OnlyDigits(SubSeq(s, Len(s) \div 2 + 1, Len(s)))

RECURSIVE ParseInt(_)
\* int(s) of a non-empty digit string
ParseInt(s) ==
  IF Len(s) = 1 THEN DigitVal(s)
  ELSE 10 * ParseInt(SubSeq(s, 1, Len(s) - 1)) + DigitVal(Ch(s, Len(s)))

\* a greedy character class [cs]* from position i: the position after the
\* longest run of characters of the set cs
SkipWhile(s, i, cs) ==
  IF i > Len(s) THEN i
  ELSE CHOOSE j \in i..(Len(s) + 1) :
         /\ j > Len(s) \/ Ch(s, j) \notin cs
         /\ \A k \in i..(j - 1) : Ch(s, k) \in cs

\* \s* from position i: the position after the white space
SkipSpaces(s, i) == SkipWhile(s, i, {" ", "\n", "\t"})

\* [0-9]* from position i: the position after the digits
SkipDigits(s, i) == SkipWhile(s, i, DigitSet)

\* [0-9,]* from position i: the position after the digits and commas
SkipAmount(s, i) == SkipWhile(s, i, DigitSet \cup {","})

\* the least position of S, or 0 when S is empty
MinPos(S) == IF S = {} THEN 0 ELSE CHOOSE i \in S : \A j \in S : i <= j

(***************************************************************************)
(* The Canonicalizer: scripts/pdf_to_ground_truth.py, build_text_only_gt.  *)
(* Lines 52-304 of the function fill a dict `out` that line 392 replaces   *)
(* by `final`; they read `source` only, so what the function returns is    *)
(* decided by lines 34-47 and 306-394, which are modelled here.            *)
(***************************************************************************)
\* keys the canonical record never takes over (lines 311, 353)
TransientKeys == {"pdf_file", "all_lines_obj", "inquiries_6mo", "inquiries_last_6_months"}

\* the nested account-category keys (lines 326, 353)
NestedAccountKeys ==
  {"revolving_accounts_open", "installment_accounts_open", "real_estate_open",
   "line_of_credit_accounts_open", "miscellaneous_accounts_open"}

\* every nested key that has a flat form (line 353)
NestedKeys == NestedAccountKeys \cup {"collections", "late_pays"}

\* `mapping` of lines 328-334: nested account key -> <<count key, total key>>
AccountMapping ==
  [k \in NestedAccountKeys |->
    CASE k = "revolving_accounts_open" -> <<"revolving_open_count", "revolving_open_total">>
      [] k = "installment_accounts_open" -> <<"installment_open_count", "installment_open_total">>
      [] k = "real_estate_open" -> <<"real_estate_open_count", "real_estate_open_total">>
      [] k = "line_of_credit_accounts_open" ->
           <<"line_of_credit_accounts_open_count", "line_of_credit_accounts_open_total">>
      [] k = "miscellaneous_accounts_open" ->
           <<"miscellaneous_accounts_open_count", "miscellaneous_accounts_open_total">>]

\* `account_seq` of line 380
AccountSeq ==
  <<"revolving_open_count", "revolving_open_total",
    "installment_open_count", "installment_open_total",
    "real_estate_open_count", "real_estate_open_total",
    "line_of_credit_accounts_open_count", "line_of_credit_accounts_open_total",
    "miscellaneous_accounts_open_count", "miscellaneous_accounts_open_total">>

\* the late-pay keys of line 386
LatePaySeq == <<"late_pays_lt2yr", "late_pays_gt2yr">>

\* the positional suffixes of lines 340, 355, 367
MetaSuffixes == <<"_bbox", "_page", "_spans">>

\* k.endswith(('_bbox','_page','_spans'))
IsMetaKey(k) == \E i \in 1..Len(MetaSuffixes) : EndsWith(k, MetaSuffixes[i])

\* mutant of NoneToZero: a null bucket is passed through
NoneToZero_KeepNone(v) == v

\* `x if x is not None else 0` of lines 316-317
NoneToZero(v) == IF IsNone(v) THEN IntV(0) ELSE v

\* lines 37-40: a {"rec": {...}} wrapper is unwrapped
UnwrapRec(rec) ==
  IF Has(rec, "rec") /\ IsDict(Get(rec, "rec")) THEN Get(rec, "rec").dict ELSE rec

\* lines 43-47: a nested credit_score dict becomes credit_score, credit_score_color
NormalizeScore(source) ==
  IF IsDict(Get(source, "credit_score"))
  THEN LET cs == Get(source, "credit_score").dict
       IN Put(Put(source, "credit_score", Get(cs, "value")),
              "credit_score_color", Get(cs, "color"))
  ELSE source

\* one iteration of the loop of lines 309-341
OrderedStep(source, oo, k) ==
  IF k \in TransientKeys THEN oo
  ELSE IF k = "late_pays" /\ IsDict(Get(source, "late_pays"))
  THEN LET lp == Get(source, "late_pays").dict
       IN Put(Put(oo, "late_pays_lt2yr", NoneToZero(Get(lp, "last_2_years"))),
              "late_pays_gt2yr", NoneToZero(Get(lp, "last_over_2_years")))
  ELSE IF k = "collections" /\ IsDict(Get(source, "collections"))
  THEN LET c == Get(source, "collections").dict
       IN Put(Put(oo, "collections_open", Get(c, "open")),
              "collections_closed", Get(c, "closed"))
  ELSE IF k \in NestedAccountKeys /\ IsDict(Get(source, k))
  THEN LET nd == Get(source, k).dict
       IN Put(Put(oo, AccountMapping[k][1], Get(nd, "count")),
              AccountMapping[k][2], Get(nd, "amount"))
  ELSE IF ~IsMetaKey(k) THEN Put(oo, k, Get(source, k))
  ELSE oo

RECURSIVE OrderedLoop(_, _, _)
\* lines 308-341: walk the source keys in order
OrderedLoop(source, oo, i) ==
  IF i > Len(source) THEN oo
  ELSE OrderedLoop(source, OrderedStep(source, oo, source[i].k), i + 1)

\* lines 344-347: flat late-pay keys default to the source's flat value or 0
LatePayDefaults(source, oo) ==
  LET a == IF Has(oo, "late_pays_lt2yr") THEN oo
           ELSE Put(oo, "late_pays_lt2yr",
                    IF Has(source, "late_pays_lt2yr") THEN Get(source, "late_pays_lt2yr")
                    ELSE IntV(0))
  IN IF Has(a, "late_pays_gt2yr") THEN a
     ELSE Put(a, "late_pays_gt2yr",
              IF Has(source, "late_pays_gt2yr") THEN Get(source, "late_pays_gt2yr")
              ELSE IntV(0))

\* lines 350-357: any source key not handled yet, in source order (the keys
\* of a dict are distinct, so each is appended once)
AppendRemaining(source, oo) ==
  oo \o SelectSeq(source,
                  LAMBDA e : ~(\/ Has(oo, e.k)
                               \/ e.k \in (TransientKeys \cup NestedKeys)
                               \/ IsMetaKey(e.k)))

\* lines 360-362: top-level *_color keys not set yet
CopyColors(source, oo) ==
  oo \o SelectSeq(source, LAMBDA e : EndsWith(e.k, "_color") /\ ~Has(oo, e.k))

\* lines 366-367: the keys k + suffix for the keys of ks, in the order of
\* the two loops
CopySpansOf(ks) ==
  [p \in 1..(3 * Len(ks)) |-> ks[((p - 1) \div 3) + 1] \o MetaSuffixes[((p - 1) % 3) + 1]]

\* lines 365-370: for k in list(ordered_out.keys()), a snapshot taken before
\* the loop; a positional key of the source that is not in ordered_out is
\* appended (two keys of ks never give the same positional key)
CopySpans(source, oo, ks) ==
  LET Copied(sks) == [i \in 1..Len(sks) |-> Entry(sks[i], Get(source, sks[i]))]
  IN oo \o Copied(SelectSeq(CopySpansOf(ks), LAMBDA sk : Has(source, sk) /\ ~Has(oo, sk)))

\* lines 373-376: inquiries_lt6mo from the alias inquiries_last_6_months
InquiriesAlias(source, oo) ==
  LET a == IF Has(source, "inquiries_last_6_months") /\ ~Has(oo, "inquiries_lt6mo")
           THEN Put(oo, "inquiries_lt6mo", Get(source, "inquiries_last_6_months"))
           ELSE oo
  IN IF Has(source, "inquiries_lt6mo") /\ ~Has(a, "inquiries_lt6mo")
     THEN Put(a, "inquiries_lt6mo", Get(source, "inquiries_lt6mo"))
     ELSE a

\* lines 382-388: the entries of oo for the keys of ks, in the order of ks
PickKeys(oo, ks) ==
  LET Picked(found) == [i \in 1..Len(found) |-> Entry(found[i], Get(oo, found[i]))]
  IN Picked(SelectSeq(ks, LAMBDA k : Has(oo, k)))

\* what ordered_out.pop leaves behind
DropKeys(oo, ks) == SelectSeq(oo, LAMBDA e : ~\E i \in 1..Len(ks) : ks[i] = e.k)

\* mutant of Reorder: the final re-ordering is left out
Reorder_SourceOrder(oo) == oo

\* lines 378-392: account keys first, late-pay keys next, the rest in order
Reorder(oo) ==
  PickKeys(oo, AccountSeq) \o PickKeys(oo, LatePaySeq)
    \o DropKeys(oo, AccountSeq \o LatePaySeq)

\* mutant of OrderedOut: the positional keys are copied whatever include_spans says
OrderedOut_SpansAlways(source, include_spans) ==
  LET o1 == OrderedLoop(source, <<>>, 1)
      o2 == LatePayDefaults(source, o1)
      o3 == AppendRemaining(source, o2)
      o4 == CopyColors(source, o3)
      o5 == CopySpans(source, o4, Keys(o4))
  IN InquiriesAlias(source, o5)

\* lines 306-376: ordered_out before the final re-ordering
OrderedOut(source, include_spans) ==
  LET o1 == OrderedLoop(source, <<>>, 1)
      o2 == LatePayDefaults(source, o1)
      o3 == AppendRemaining(source, o2)
      o4 == CopyColors(source, o3)
      o5 == IF include_spans THEN CopySpans(source, o4, Keys(o4)) ELSE o4
  IN InquiriesAlias(source, o5)

\* build_text_only_gt(rec, include_spans)
BuildTextOnlyGt(rec, include_spans) ==
  Reorder(OrderedOut(NormalizeScore(UnwrapRec(rec)), include_spans))

(***************************************************************************)
(* More text helpers of the extractor's regular expressions.               *)
(***************************************************************************)
Min(a, b) == IF a <= b THEN a ELSE b

Max(a, b) == IF a >= b THEN a ELSE b

\* the greatest position of S, or 0 when S is empty
MaxPos(S) == IF S = {} THEN 0 ELSE CHOOSE i \in S : \A j \in S : i >= j

\* all_lines[a : b] of Python for 0-based a, b, as 1-based positions a+1..b
Slice(seq, a, b) == SubSeq(seq, Max(a, 0) + 1, Min(b, Len(seq)))

\* the character at position i is a word character (FALSE outside the text)
WordAt(s, i) == i >= 1 /\ i <= Len(s) /\ IsWordCh(Ch(s, i))

\* \b between positions i-1 and i
Boundary(s, i) == WordAt(s, i - 1) # WordAt(s, i)

\* \bw\b at position i
WordHere(s, i, w) == At(s, i, w) /\ Boundary(s, i) /\ Boundary(s, i + Len(w))

\* re.search(r"\bw\b", s)
HasWord(s, w) == \E i \in 1..Len(s) : WordHere(s, i, w)

\* re.search(r"\d", s)
HasDigit(s) == \E i \in 1..Len(s) : IsDigit(Ch(s, i))

RECURSIVE IntToStr(_)
\* f"{i}" of a non-negative int
IntToStr(n) ==
  IF n < 10 THEN Ch(DigitChars, n + 1)
  ELSE IntToStr(n \div 10) \o Ch(DigitChars, (n % 10) + 1)

RECURSIVE Upper(_)
\* s.upper()
Upper(s) ==
  IF Len(s) <= 1 THEN (IF s \in DOMAIN UpperOf THEN UpperOf[s] ELSE s)
  ELSE Upper(SubSeq(s, 1, Len(s) \div 2)) \o Upper(SubSeq(s, Len(s) \div 2 + 1, Len(s)))

RECURSIVE JoinWith(_, _)
\* sep.join(parts)
JoinWith(parts, sep) ==
  IF parts = <<>> THEN ""
  ELSE IF Len(parts) = 1 THEN parts[1]
  ELSE parts[1] \o sep \o JoinWith(Tail(parts), sep)

RECURSIVE Words(_)
\* [w for w in re.split(r"\s+", s.strip()) if w]
Words(s) ==
  LET t == LStrip(s)
      e == MinPos({i \in 1..Len(t) : IsSpace(Ch(t, i))})
  IN IF t = "" THEN <<>>
     ELSE IF e = 0 THEN <<t>>
     ELSE <<SubSeq(t, 1, e - 1)>> \o Words(SubSeq(t, e, Len(t)))

(***************************************************************************)
(* Colors: _intcolor_to_rgb, the adapter's hex formatting, hex_to_rgb and  *)
(* map_color_to_cat.  An RGB triple is a 3-tuple; <<>> stands for None.    *)
(***************************************************************************)
HexChars == "0123456789abcdef"

\* f"{c:x}" of a byte: no zero padding
Hex2_NoPad(c) ==
  IF c < 16 THEN Ch(HexChars, c + 1)
  ELSE Ch(HexChars, (c \div 16) + 1) \o Ch(HexChars, (c % 16) + 1)

\* f"{c:02x}" of a byte
Hex2(c) == Ch(HexChars, (c \div 16) + 1) \o Ch(HexChars, (c % 16) + 1)

\* "#" + "".join(f"{c:02x}" for c in rgb), also "#%02x%02x%02x" % rgb
format_hex(rgb) == "#" \o Hex2(rgb[1]) \o Hex2(rgb[2]) \o Hex2(rgb[3])

\* _intcolor_to_rgb (lines 215-223) of an int: shifts and masks
intcolor_to_rgb(ci) == <<(ci \div 65536) % 256, (ci \div 256) % 256, ci % 256>>

IsHexDigit(c) == \E d \in 1..16 : Ch(HexChars, d) = LowerCh(c)

HexVal(c) == (CHOOSE d \in 1..16 : Ch(HexChars, d) = LowerCh(c)) - 1

\* int(s, 16) of a two-character slice: <<value>>, or <<>> for ValueError.
\* int() strips white space and takes a sign, so "+f" and " f" are numbers.
Int16(s) ==
  LET Val(body) ==
        IF Len(body) = 1 THEN HexVal(body)
        ELSE 16 * HexVal(Ch(body, 1)) + HexVal(Ch(body, 2))
      Num(body, neg) ==
        IF body = "" \/ \E i \in 1..Len(body) : ~IsHexDigit(Ch(body, i)) THEN <<>>
        ELSE IF neg THEN <<0 - Val(body)>> ELSE <<Val(body)>>
      Signed(t) ==
        IF t # "" /\ Ch(t, 1) \in {"+", "-"}
        THEN Num(SubSeq(t, 2, Len(t)), Ch(t, 1) = "-") ELSE Num(t, FALSE)
  IN Signed(Strip(s))

RECURSIVE LStripHash(_)
\* h.lstrip('#')
LStripHash(h) == IF h # "" /\ Ch(h, 1) = "#" THEN LStripHash(SubSeq(h, 2, Len(h))) ELSE h

\* hex_to_rgb (lines 91-103) of a string
hex_to_rgb(h) ==
  LET Triple(r, g, bl) ==
        IF r = <<>> \/ g = <<>> \/ bl = <<>> THEN <<>> ELSE <<r[1], g[1], bl[1]>>
      Parse(b) ==
        IF Len(b) # 6 THEN <<>>
        ELSE Triple(Int16(SubSeq(b, 1, 2)), Int16(SubSeq(b, 3, 4)), Int16(SubSeq(b, 5, 6)))
  IN IF h = "" THEN <<>> ELSE Parse(LStripHash(Strip(h)))

\* map_color_to_cat without the test that keeps amber out of red
map_color_to_cat_AmberIsRed(rgb) ==
  IF Len(rgb) # 3 THEN "black"
  ELSE LET r == rgb[1]
           g == rgb[2]
           b == rgb[3]
       IN IF r > g + 40 /\ r > b + 40 /\ r > 100 THEN "red"
          ELSE IF g > r + 40 /\ g > b + 40 /\ g > 100 THEN "green"
          ELSE IF r < 80 /\ g < 80 /\ b < 80 THEN "black"
          ELSE "neutral"

\* map_color_to_cat (lines 106-123)
map_color_to_cat(rgb) ==
  IF Len(rgb) # 3 THEN "black"
  ELSE LET r == rgb[1]
           g == rgb[2]
           b == rgb[3]
       IN IF r > g + 40 /\ r > b + 40 /\ r > 100 /\ g < 120 THEN "red"
          ELSE IF g > r + 40 /\ g > b + 40 /\ g > 100 THEN "green"
          ELSE IF r < 80 /\ g < 80 /\ b < 80 THEN "black"
          ELSE "neutral"

(***************************************************************************)
(* The Line/Span Adapter (lines 225-250).  A page of the document is a     *)
(* sequence of layout lines [spans, bbox]; a span is [text, color] with    *)
(* color a packed int or None; bbox coordinates are in tenths of a point.  *)
(* An adapted line is [page, spans, bbox], an adapted span [text, rgb,     *)
(* hex] with rgb = <<>> and hex = "" when the span dict has no such keys.  *)
(***************************************************************************)
\* int(x) of a float given in tenths: truncation toward zero
IntOfTenths(x) == IF x >= 0 THEN x \div 10 ELSE 0 - ((0 - x) \div 10)

\* lines 232-242
AdaptSpan(s) ==
  IF IsNone(s.color) THEN [text |-> s.text, rgb |-> <<>>, hex |-> ""]
  ELSE LET rgb == intcolor_to_rgb(s.color.int)
       IN [text |-> s.text, rgb |-> rgb, hex |-> format_hex(rgb)]

\* lines 230-247 for the lines of page pi; a line without spans is dropped
AdaptPage(page, pi) ==
  LET kept == SelectSeq(page, LAMBDA ln : ln.spans # <<>>)
  IN [i \in 1..Len(kept) |->
        [page |-> pi,
         spans |-> [j \in 1..Len(kept[i].spans) |-> AdaptSpan(kept[i].spans[j])],
         bbox |-> [j \in 1..4 |-> IntOfTenths(kept[i].bbox[j])]]]

\* a span dict as a value of the record
SpanValue(s) ==
  DictV(<<Entry("text", StrV(s.text))>>
        \o (IF s.rgb = <<>> THEN <<>>
            ELSE <<Entry("rgb", ListV([i \in 1..3 |-> IntV(s.rgb[i])])),
                   Entry("hex", StrV(s.hex))>>))

SpansValue(spans) == ListV([i \in 1..Len(spans) |-> SpanValue(spans[i])])

BboxValue(bbox) == ListV([i \in 1..Len(bbox) |-> IntV(bbox[i])])

\* a line dict of all_lines as a value of the record (line 246)
LineValue(ln) ==
  DictV(<<Entry("page", IntV(ln.page)), Entry("spans", SpansValue(ln.spans)),
          Entry("bbox", BboxValue(ln.bbox))>>)

\* extract_credit_factors_from_doc (lines 163-181): one placeholder per page
\* below page_limit; [] when iterating the document raises before the break
extract_credit_factors_from_doc(pages, flt, limit) ==
  IF flt.kind = "iter" /\ flt.at <= limit THEN <<>>
  ELSE [i \in 1..Min(Len(pages), limit) |->
          DictV(<<Entry("factor", StrV("page_" \o IntToStr(i - 1) \o "_placeholder")),
                  Entry("page", IntV(i - 1)),
                  Entry("bbox", ListV(<<IntV(0), IntV(0), IntV(0), IntV(0)>>))>>)]

RECURSIVE basename(_)
\* os.path.basename
basename(p) ==
  LET i == MinPos({j \in 1..Len(p) : Ch(p, j) = "/"})
  IN IF i = 0 THEN p ELSE basename(SubSeq(p, i + 1, Len(p)))

(***************************************************************************)
(* The Field Locators of extract_pdf_all_fields (lines 256-846), each as   *)
(* the record it leaves behind.  `lines` is all_lines, `spans_on` is       *)
(* include_spans.  The amount groups of the modelled documents hold a      *)
(* digit (int() of a group of commas only would raise ValueError).         *)
(***************************************************************************)
\* ln.get("spans", [])[0].get("text", "") or ""
first_text(ln) == ln.spans[1].text

\* _line_text (lines 326-331)
line_text(ln) == Strip(JoinWith([i \in 1..Len(ln.spans) |-> ln.spans[i].text], "\n"))

\* the first position of seq whose element satisfies P, or 0
FirstIdx(seq, P(_)) == MinPos({i \in 1..Len(seq) : P(seq[i])})

\* s.get('rgb') or s.get('hex')
HasColor(s) == s.rgb # <<>> \/ s.hex # ""

\* `rgb` of lines 288-292, 413-417: the span's rgb, else its parsed hex
SpanRgb(s) ==
  IF s.rgb # <<>> THEN s.rgb ELSE IF s.hex # "" THEN hex_to_rgb(s.hex) ELSE <<>>

\* `preferred`: the first span that satisfies P, otherwise the first colored
\* span (0: no span is preferred)
Preferred(spans, P(_)) ==
  LET i == FirstIdx(spans, P) IN IF i # 0 THEN i ELSE FirstIdx(spans, HasColor)

\* re.search(r"\$\d", t)
HasDollarDigit(t) == \E i \in 1..(Len(t) - 1) : Ch(t, i) = "$" /\ IsDigit(Ch(t, i + 1))

\* lines 256-298: the amount lines after the heading, and under include_spans
\* the color and position of the first of them with a colored preferred span
credit_card_open_totals_raw(r, lines, spans_on) ==
  LET Rgb(ln, p) == IF p = 0 THEN <<>> ELSE SpanRgb(ln.spans[p])
      \* the color of the preferred span of ln, <<>> without one
      PrefRgb(ln) ==
        Rgb(ln, Preferred(ln.spans, LAMBDA s : s.text # "" /\ Contains(s.text, "$")))
      Colored(r1, ln) ==
        Put(Put(Put(Put(r1,
          "credit_card_open_totals_color", StrV(map_color_to_cat(PrefRgb(ln)))),
          "credit_card_open_totals_bbox", BboxValue(ln.bbox)),
          "credit_card_open_totals_page", IntV(ln.page)),
          "credit_card_open_totals_spans", SpansValue(ln.spans))
      Amounts(texts) == SelectSeq(texts, LAMBDA t : StartsWith(t, "$") \/ HasDollarDigit(t))
      Totals(amounts) ==
        Put(r, "credit_card_open_totals",
            DictV(<<Entry("amounts", ListV([i \in 1..Len(amounts) |-> StrV(amounts[i])]))>>))
      Hit(r1, win, hit) == IF ~spans_on \/ hit = 0 THEN r1 ELSE Colored(r1, win[hit])
      Window(win) ==
        Hit(Totals(Amounts([i \in 1..Len(win) |-> Strip(first_text(win[i]))])),
            win, FirstIdx(win, LAMBDA ln : PrefRgb(ln) # <<>>))
      Found(idx) == IF idx = 0 THEN r ELSE Window(Slice(lines, idx, idx + 5))
  IN Found(FirstIdx(lines,
             LAMBDA ln : Contains(Lower(first_text(ln)), "credit card open totals")))

\* mutant of monthly_payments_color: the position of the '/mo' line is
\* recorded whatever include_spans says
monthly_payments_color_SpansAlways(r, lines, spans_on) ==
  LET mp == FirstIdx(lines, LAMBDA ln : Contains(first_text(ln), "/mo"))
      spans == lines[mp].spans
      p == FirstIdx(spans,
             LAMBDA s : s.text # "" /\ (Contains(s.text, "/mo") \/ Contains(s.text, "$")))
      pref == spans[IF p # 0 THEN p ELSE 1]
      r1 == IF pref.hex # "" THEN Put(r, "monthly_payments_color", StrV(pref.hex))
            ELSE IF pref.rgb # <<>>
            THEN Put(r, "monthly_payments_color", StrV(format_hex(pref.rgb)))
            ELSE r
  IN IF mp = 0 THEN (IF spans_on THEN r ELSE SetDefault(r, "monthly_payments_color", NoneV))
     ELSE Put(r1, "monthly_payments_bbox", BboxValue(lines[mp].bbox))

\* lines 299-323: the color of the first '/mo' line under include_spans,
\* otherwise a null monthly_payments_color
monthly_payments_color(r, lines, spans_on) ==
  LET mp == FirstIdx(lines, LAMBDA ln : Contains(first_text(ln), "/mo"))
      spans == lines[mp].spans
      p == FirstIdx(spans,
             LAMBDA s : s.text # "" /\ (Contains(s.text, "/mo") \/ Contains(s.text, "$")))
      pref == spans[IF p # 0 THEN p ELSE 1]
      r1 == IF pref.hex # "" THEN Put(r, "monthly_payments_color", StrV(pref.hex))
            ELSE IF pref.rgb # <<>>
            THEN Put(r, "monthly_payments_color", StrV(format_hex(pref.rgb)))
            ELSE r
  IN IF ~spans_on THEN SetDefault(r, "monthly_payments_color", NoneV)
     ELSE IF mp = 0 THEN r
     ELSE Put(r1, "monthly_payments_bbox", BboxValue(lines[mp].bbox))

\* [:\s]* from position i
SkipColonSpace(s, i) == SkipWhile(s, i, {":", " ", "\n", "\t"})

\* re.search(r'Age[:\s]*([0-9]{1,3})', txt, re.IGNORECASE): <<int(group 1)>> or <<>>
age_match(txt) ==
  LET low == Lower(txt)
      Digits(k) == SkipColonSpace(txt, k + 3)
      i == MinPos({k \in 1..Len(txt) :
                     /\ At(low, k, "age")
                     /\ Digits(k) <= Len(txt)
                     /\ IsDigit(Ch(txt, Digits(k)))})
      e == Min(SkipDigits(txt, Digits(i)), Digits(i) + 3)
  IN IF i = 0 THEN <<>> ELSE <<ParseInt(SubSeq(txt, Digits(i), e - 1))>>

\* lines 333-342: the first line with an age
age(r, lines) ==
  LET i == FirstIdx(lines, LAMBDA ln : age_match(line_text(ln)) # <<>>)
  IN IF i = 0 THEN r ELSE Put(r, "age", IntV(age_match(line_text(lines[i]))[1]))

\* the words of `street_like` (line 346)
StreetWords == {"st", "rd", "dr", "ln", "ave", "blvd", "way", "ct", "circle", "ste", "suite"}

\* street_like.search(t): \d+|\b(st|rd|...)\b, ignoring case
street_like(t) ==
  LET low == Lower(t)
  IN HasDigit(t) \/ \E w \in StreetWords : HasWord(low, w)

\* [A-Z]{2}\.?\s*\d{5} at position i ([A-Za-z]{2} when any_case): the
\* position after the match, or 0
StateZip(s, i, any_case) ==
  LET d == IF i + 2 <= Len(s) /\ Ch(s, i + 2) = "." THEN i + 3 ELSE i + 2
      z == SkipSpaces(s, d)
  IN IF /\ i >= 1 /\ i + 1 <= Len(s)
        /\ \A k \in {i, i + 1} :
             IF any_case THEN IsLetter(Ch(s, k)) ELSE LowerCh(Ch(s, k)) # Ch(s, k)
        /\ z + 4 <= Len(s)
        /\ \A k \in z..(z + 4) : IsDigit(Ch(s, k))
     THEN z + 5 ELSE 0

\* city_like.search(t): \b[A-Za-z][A-Za-z\.\s]+,\s*[A-Z]{2}\.?\s*\d{5}\b (line 347)
city_like(t) ==
  \E i \in 1..Len(t) :
    /\ Boundary(t, i) /\ IsLetter(Ch(t, i))
    /\ \E j \in (i + 2)..Len(t) :
         /\ Ch(t, j) = ","
         /\ \A k \in (i + 1)..(j - 1) :
              IsLetter(Ch(t, k)) \/ Ch(t, k) = "." \/ IsSpace(Ch(t, k))
         /\ LET e == StateZip(t, SkipSpaces(t, j + 1), FALSE)
            IN e # 0 /\ Boundary(t, e)

\* ' '.join(w.capitalize() for w in re.split(r"\s+", part.strip()) if w)
titleize(part) ==
  LET ws == Words(part)
  IN JoinWith([i \in 1..Len(ws) |->
                 Upper(Ch(ws[i], 1)) \o Lower(SubSeq(ws[i], 2, Len(ws[i])))], " ")

RECURSIVE RemoveDots(_)
\* s.replace('.', '')
RemoveDots(s) ==
  IF Len(s) <= 1 THEN (IF s = "." THEN "" ELSE s)
  ELSE RemoveDots(SubSeq(s, 1, Len(s) \div 2))
       \o RemoveDots(SubSeq(s, Len(s) \div 2 + 1, Len(s)))

RECURSIVE SpaceCommas(_)
\* re.sub(r'\s*,\s*', ', ', s)
SpaceCommas(s) ==
  IF s = "" THEN ""
  ELSE LET c == SkipSpaces(s, 1)
       IN IF c <= Len(s) /\ Ch(s, c) = ","
          THEN ", " \o SpaceCommas(SubSeq(s, SkipSpaces(s, c + 1), Len(s)))
          ELSE Ch(s, 1) \o SpaceCommas(SubSeq(s, 2, Len(s)))

\* normalize_address_string (lines 126-160).  s0 has its white space
\* collapsed to single blanks, so the newline pattern of lines 147-157 never
\* applies.  The match of line 139 takes the first comma after which the
\* rest matches (lazy street), then the longest \s* and the longest city.
normalize_address_string(s) ==
  LET Parse(s0) ==
        LET n == Len(s0)
            \* ,?\s*[A-Za-z]{2}\.?\s*\d{5} from position p: where the state starts
            StateAt(p) == SkipSpaces(s0, IF p <= n /\ Ch(s0, p) = "," THEN p + 1 ELSE p)
            CityOk(cs, e) ==
              /\ \A k \in cs..e : IsLetter(Ch(s0, k)) \/ Ch(s0, k) = "." \/ IsSpace(Ch(s0, k))
              /\ StateZip(s0, StateAt(e + 1), TRUE) # 0
            Cands(c) == {ce \in ((c + 1)..SkipSpaces(s0, c + 1)) \X ((c + 1)..n) :
                           ce[1] <= ce[2] /\ CityOk(ce[1], ce[2])}
            Out(c, cs, e, st, z) ==
              titleize(SubSeq(s0, 1, c - 1)) \o ", " \o titleize(SubSeq(s0, cs, e)) \o ", "
              \o Upper(SubSeq(s0, st, st + 1)) \o " " \o SubSeq(s0, z - 5, z - 1)
            State(c, cs, e, st) == Out(c, cs, e, st, StateZip(s0, st, TRUE))
            City(c, cs, e) == State(c, cs, e, StateAt(e + 1))
            Street(c, cs) == City(c, cs, MaxPos({ce[2] : ce \in {x \in Cands(c) : x[1] = cs}}))
            Comma(c) ==
              IF c # 0 THEN Street(c, MaxPos({ce[1] : ce \in Cands(c)}))
              ELSE titleize(SpaceCommas(s0))
        IN Comma(MinPos({k \in 1..n : Ch(s0, k) = "," /\ Cands(k) # {}}))
  IN Parse(JoinWith(Words(RemoveDots(s)), " "))

RECURSIVE Dedupe(_, _)
\* lines 373-379: the first occurrence of each normalized address
Dedupe(xs, seen) ==
  IF xs = <<>> THEN <<>>
  ELSE (IF Head(xs) \in seen THEN <<>> ELSE <<Head(xs)>>)
       \o Dedupe(Tail(xs), seen \cup {Head(xs)})

RECURSIVE address_scan(_, _)
\* the while loop of lines 349-369 from (1-based) line i: the paired addresses
address_scan(lines, i) ==
  LET n == Len(lines)
      text(k) == line_text(lines[k])
      IsStreet(k) == street_like(text(k)) /\ ~city_like(text(k))
      excluded(t) == \E w \in {"credit", "age", "name", "report date", "categories"} :
                       Contains(Lower(t), w)
      \* the street lines i..e-1 and the city lines e..j-1, paired in order
      Pair(streets, e, j) ==
        IF streets # <<>> /\ j > e
        THEN [k \in 1..Min(Len(streets), j - e) |-> streets[k] \o ", " \o text(e + k - 1)]
             \o address_scan(lines, j)
        ELSE address_scan(lines, e + 1)
      Run(e) ==
        Pair(SelectSeq([k \in 1..(e - i) |-> text(i + k - 1)],
                       LAMBDA t : t # "" /\ ~excluded(t)),
             e, MinPos({k \in e..(n + 1) : k = n + 1 \/ ~city_like(text(k))}))
  IN IF i > n THEN <<>>
     ELSE Run(MinPos({k \in i..(n + 1) : k = n + 1 \/ ~IsStreet(k)}))

\* lines 344-380
address(r, lines) ==
  LET Write(deduped) ==
        Put(r, "address", ListV([k \in 1..Len(deduped) |-> StrV(deduped[k])]))
      Found(found) ==
        IF found = <<>> THEN r
        ELSE Write(Dedupe([k \in 1..Len(found) |-> normalize_address_string(found[k])], {}))
  IN Found(address_scan(lines, 1))

\* lines 401-423, 435-456: the score's color, bbox, page and spans from line
\* ln when its preferred span (one holding the score text t, else a colored
\* one) gives a color; otherwise r unchanged
score_color(r, ln, t) ==
  LET Rgb(p) == IF p = 0 THEN <<>> ELSE SpanRgb(ln.spans[p])
      Colored(rgb) ==
        IF rgb = <<>> THEN r
        ELSE Put(Put(Put(Put(r,
               "credit_score_color", StrV(map_color_to_cat(rgb))),
               "credit_score_bbox", BboxValue(ln.bbox)),
               "credit_score_page", IntV(ln.page)),
               "credit_score_spans", SpansValue(ln.spans))
  IN Colored(Rgb(Preferred(ln.spans, LAMBDA s : s.text # "" /\ Contains(s.text, t))))

\* lines 383-457: the first all-digit line within 3 lines of a 'credit score'
\* label, else the first line of the first six that is a number in 300..850
credit_score(r, lines, spans_on) ==
  LET n == Len(lines)
      text(i) == line_text(lines[i])
      NumNear(idx) == MinPos({j \in Max(1, idx - 3)..Min(n, idx + 3) : IsDigitStr(text(j))})
      \* the first line around the number at j that gives the score a color
      Near(j) == MinPos({x \in Max(1, j - 2)..Min(n, j + 2) :
                           score_color(<<>>, lines[x], text(j)) # <<>>})
      Score(t) == Put(r, "credit_score", IntV(ParseInt(t)))
      Labelled(t, k) ==
        IF spans_on /\ k # 0 THEN score_color(Score(t), lines[k], t) ELSE Score(t)
      Bare(ln, t) == IF spans_on THEN score_color(Score(t), ln, t) ELSE Score(t)
      Fallback(f) == IF f = 0 THEN r ELSE Bare(lines[f], text(f))
      Found(idx, j) ==
        IF idx # 0 THEN Labelled(text(j), Near(j))
        ELSE Fallback(FirstIdx(Slice(lines, 0, 6),
               LAMBDA ln : IsDigitStr(line_text(ln)) /\ ParseInt(line_text(ln)) \in 300..850))
      Label(idx) == Found(idx, NumNear(idx))
  IN Label(MinPos({i \in 1..n : Contains(Lower(text(i)), "credit score") /\ NumNear(i) # 0}))

\* re.search(r'\$\s*([0-9,]+)\s*/?\s*mo', txt, re.IGNORECASE): <<group 1>> or <<>>
monthly_match(txt) ==
  LET low == Lower(txt)
      Start(i) == SkipSpaces(txt, i + 1)
      End(i) == SkipAmount(txt, Start(i))
      Ok(i) ==
        /\ Ch(txt, i) = "$"
        /\ End(i) > Start(i)
        /\ LET a == SkipSpaces(txt, End(i))
               b == IF a <= Len(txt) /\ Ch(txt, a) = "/" THEN a + 1 ELSE a
           IN At(low, SkipSpaces(txt, b), "mo")
      i == MinPos({k \in 1..Len(txt) : Ok(k)})
  IN IF i = 0 THEN <<>> ELSE <<SubSeq(txt, Start(i), End(i) - 1)>>

\* the payment is read only when spans are requested
monthly_payments_OnlyWithSpans(r, lines, spans_on) ==
  LET i == FirstIdx(lines, LAMBDA ln : monthly_match(line_text(ln)) # <<>>)
      Found(ln) ==
        Put(Put(r, "monthly_payments",
                IntV(ParseInt(OnlyDigits(monthly_match(line_text(ln))[1])))),
            "monthly_payments_bbox", BboxValue(ln.bbox))
  IN IF Has(r, "monthly_payments") \/ i = 0 \/ ~spans_on THEN r ELSE Found(lines[i])

\* lines 459-469: the first '$N/mo' line; its first span's hex and its bbox
\* under include_spans
monthly_payments(r, lines, spans_on) ==
  LET i == FirstIdx(lines, LAMBDA ln : monthly_match(line_text(ln)) # <<>>)
      ln == lines[i]
      r1 == Put(r, "monthly_payments",
                IntV(ParseInt(OnlyDigits(monthly_match(line_text(ln))[1]))))
  IN IF Has(r, "monthly_payments") \/ i = 0 THEN r
     ELSE IF spans_on /\ ln.spans[1].hex # ""
     THEN Put(Put(r1, "monthly_payments_color", StrV(ln.spans[1].hex)),
              "monthly_payments_bbox", BboxValue(ln.bbox))
     ELSE r1

\* the words of line 481
BoolWords == {"yes", "no", "y", "n", "true", "false", "1", "0"}

\* re.search(r'\b(yes|no|y|n|true|false|1|0)\b', s): the matched word, or ""
bool_word(s) ==
  LET Word(i) == IF i = 0 THEN "" ELSE CHOOSE w \in BoolWords : WordHere(s, i, w)
  IN Word(MinPos({k \in 1..Len(s) : \E w \in BoolWords : WordHere(s, k, w)}))

\* _parse_bool_text (lines 472-484): <<1>>, <<0>>, or <<>> for None
parse_bool_text(t) ==
  LET Word(w) ==
        IF w = "" THEN <<>> ELSE IF w \in {"yes", "y", "true", "1"} THEN <<1>> ELSE <<0>>
      Parse(s) ==
        IF s \in {"yes", "y", "true", "t", "1"} THEN <<1>>
        ELSE IF s \in {"no", "n", "false", "f", "0"} THEN <<0>>
        ELSE Word(bool_word(s))
  IN IF t = "" THEN <<>> ELSE Parse(Lower(Strip(t)))

\* lines 487-519: the line the indicator's value is read from: for the first
\* heading line that has one, the heading line itself, else the nearest of
\* the next 3 lines, else the nearest of the previous 6 (0: not found)
bool_found(lines, heading) ==
  LET n == Len(lines)
      HasVal(i) == parse_bool_text(line_text(lines[i])) # <<>>
      Before(i, nx) ==
        IF nx # 0 THEN nx ELSE MaxPos({j \in Max(1, i - 6)..(i - 1) : HasVal(j)})
      Src(i) ==
        IF HasVal(i) THEN i
        ELSE Before(i, MinPos({j \in (i + 1)..Min(n, i + 3) : HasVal(j)}))
      Found(h) == IF h = 0 THEN 0 ELSE Src(h)
  IN Found(MinPos({i \in 1..n :
                     Contains(Lower(line_text(lines[i])), heading) /\ Src(i) # 0}))

\* lines 520-564 for one heading: the value, and under include_spans the
\* bbox, page and spans of the line vertically nearest to the found line
\* (the first such line of the 4 before to the 4 after) and its color
bool_indicator(r, lines, spans_on, heading, key) ==
  LET n == Len(lines)
      Mid2(ln) == ln.bbox[2] + ln.bbox[4]
      Dy2(c, j) == IF Mid2(lines[c]) >= Mid2(lines[j])
                   THEN Mid2(lines[c]) - Mid2(lines[j]) ELSE Mid2(lines[j]) - Mid2(lines[c])
      Nearest(c, win) == lines[MinPos({j \in win : \A x \in win : Dy2(c, j) <= Dy2(c, x)})]
      Rgb(best, p) == IF p = 0 THEN <<>> ELSE SpanRgb(best.spans[p])
      Colored(r2, rgb) ==
        IF rgb = <<>> THEN r2 ELSE Put(r2, key \o "_color", StrV(map_color_to_cat(rgb)))
      Positioned(r1, best) ==
        Colored(Put(Put(Put(r1, key \o "_bbox", BboxValue(best.bbox)),
                        key \o "_page", IntV(best.page)),
                    key \o "_spans", SpansValue(best.spans)),
                Rgb(best, Preferred(best.spans,
                                    LAMBDA s : bool_word(Lower(Strip(s.text))) # "")))
      Value(r1, c) ==
        IF ~spans_on THEN r1
        ELSE Positioned(r1, Nearest(c, Max(1, c - 4)..Min(n, c + 4)))
      Found(c) ==
        IF c = 0 THEN r
        ELSE Value(Put(r, key, IntV(parse_bool_text(line_text(lines[c]))[1])), c)
  IN Found(bool_found(lines, heading))

RECURSIVE bool_indicators(_, _, _, _)
\* lines 486-590: the three indicators in turn, from the k-th.  Every line of all_lines has
\* spans and the window holds the found line, so `best` is never None and
\* the fallback of lines 565-590 is not taken.
bool_indicators(r, lines, spans_on, k) ==
  LET heads == <<"credit freeze", "fraud alert", "deceased">>
      keys == <<"credit_freeze", "fraud_alert", "deceased">>
  IN IF k > Len(heads) THEN r
     ELSE bool_indicators(bool_indicator(r, lines, spans_on, heads[k], keys[k]),
                          lines, spans_on, k + 1)

\* `category_map` of lines 593-599: <<label, nested key>>
category_map ==
  << <<"revolving accounts", "revolving_accounts_open">>,
     <<"installment accounts", "installment_accounts_open">>,
     <<"real estate", "real_estate_open">>,
     <<"line of credit", "line_of_credit_accounts_open">>,
     <<"miscellaneous", "miscellaneous_accounts_open">> >>

\* re.search(r'no .*accounts', s): '.' does not match a newline
no_accounts(s) ==
  \E i \in 1..Len(s) :
    /\ At(s, i, "no ")
    /\ \E j \in (i + 3)..Len(s) :
         At(s, j, "accounts") /\ \A k \in (i + 3)..(j - 1) : Ch(s, k) # "\n"

\* re.search(r'(\d+\s*/\s*\$?\s*[0-9,]+)', s): group 1, or "" without a match
pair_match(s) ==
  LET End(i) ==
        LET a == SkipSpaces(s, SkipDigits(s, i))
            b == SkipSpaces(s, a + 1)
            c == IF b <= Len(s) /\ Ch(s, b) = "$" THEN SkipSpaces(s, b + 1) ELSE b
        IN IF a <= Len(s) /\ Ch(s, a) = "/" /\ SkipAmount(s, c) > c
           THEN SkipAmount(s, c) ELSE 0
      i == MinPos({k \in 1..Len(s) : IsDigit(Ch(s, k)) /\ End(k) # 0})
  IN IF i = 0 THEN "" ELSE SubSeq(s, i, End(i) - 1)

RECURSIVE Split(_, _)
\* s.split(sep) for a one-character sep
Split(s, sep) ==
  LET i == MinPos({k \in 1..Len(s) : Ch(s, k) = sep})
  IN IF i = 0 THEN <<s>>
     ELSE <<SubSeq(s, 1, i - 1)>> \o Split(SubSeq(s, i + 1, Len(s)), sep)

RECURSIVE pair_parts(_, _)
\* the loop of lines 29-33 over the parts: a part with '$' and an amount sets
\* the amount, another part with a digit sets the count
pair_parts(parts, ca) ==
  IF parts = <<>> THEN ca
  ELSE LET p == Strip(Head(parts))
           dollar == \E i \in 1..Len(p) :
                       Ch(p, i) = "$" /\ SkipAmount(p, SkipSpaces(p, i + 1)) > SkipSpaces(p, i + 1)
       IN pair_parts(Tail(parts),
            IF dollar THEN <<ca[1], IntV(ParseInt(OnlyDigits(p)))>>
            ELSE IF HasDigit(p) THEN <<IntV(ParseInt(OnlyDigits(p))), ca[2]>>
            ELSE ca)

\* parse_count_amount_pair (lines 19-34): <<count, amount>>, each an int or None
parse_count_amount_pair(s0) ==
  LET s == Strip(s0)
      low == Lower(s)
  IN IF HasWord(low, "mo") \/ Contains(low, "/mo") \/ Contains(low, "per month")
     THEN <<NoneV, NoneV>>
     ELSE IF ~Contains(s, "/") THEN <<NoneV, NoneV>>
     ELSE pair_parts(Split(s, "/"), <<NoneV, NoneV>>)

RECURSIVE pair_in_next(_)
\* lines 631-639: the first of the following lines that says 'no ... accounts'
\* or holds a pair decides
pair_in_next(nxt) ==
  LET Line(nt, pm) ==
        IF no_accounts(Lower(nt)) THEN <<IntV(0), IntV(0)>>
        ELSE IF pm # "" THEN parse_count_amount_pair(pm)
        ELSE pair_in_next(Tail(nxt))
      Text(nt) == Line(nt, pair_match(nt))
  IN IF nxt = <<>> THEN <<NoneV, NoneV>> ELSE Text(line_text(Head(nxt)))

\* put_category that leaves flat keys alone once they are in the record
put_category_FlatOnce(r, outkey, ca) ==
  SetDefault(SetDefault(Put(r, outkey, DictV(<<Entry("count", ca[1]), Entry("amount", ca[2])>>)),
                        AccountMapping[outkey][1], ca[1]),
             AccountMapping[outkey][2], ca[2])

\* rec[outkey] = {'count': .., 'amount': ..} and the two flat keys
put_category(r, outkey, ca) ==
  Put(Put(Put(r, outkey, DictV(<<Entry("count", ca[1]), Entry("amount", ca[2])>>)),
          AccountMapping[outkey][1], ca[1]),
      AccountMapping[outkey][2], ca[2])

\* account_line that sets a labelled category without a pair to 0 and 0
account_line_DefaultZero(r, lines, i) ==
  LET Same(pm) == IF pm # "" THEN parse_count_amount_pair(pm) ELSE <<NoneV, NoneV>>
      Pair(same) ==
        IF same = <<NoneV, NoneV>> THEN pair_in_next(Slice(lines, i, i + 7)) ELSE same
      Write(outkey, ca) ==
        put_category(r, outkey, IF ca # <<NoneV, NoneV>> THEN ca ELSE <<IntV(0), IntV(0)>>)
      Category(txt, outkey) ==
        IF no_accounts(txt) THEN put_category(r, outkey, <<IntV(0), IntV(0)>>)
        ELSE Write(outkey, Pair(Same(pair_match(txt))))
      Label(txt, m) == IF m = 0 THEN r ELSE Category(txt, category_map[m][2])
      Text(txt) ==
        Label(txt, MinPos({k \in 1..Len(category_map) : Contains(txt, category_map[k][1])}))
  IN Text(Lower(line_text(lines[i])))

\* lines 601-658 for the line at position i: only the first label of
\* category_map found on the line is handled
account_line(r, lines, i) ==
  LET Same(pm) == IF pm # "" THEN parse_count_amount_pair(pm) ELSE <<NoneV, NoneV>>
      Pair(same) ==
        IF same = <<NoneV, NoneV>> THEN pair_in_next(Slice(lines, i, i + 7)) ELSE same
      Write(outkey, ca) == IF ca # <<NoneV, NoneV>> THEN put_category(r, outkey, ca) ELSE r
      Category(txt, outkey) ==
        IF no_accounts(txt) THEN put_category(r, outkey, <<IntV(0), IntV(0)>>)
        ELSE Write(outkey, Pair(Same(pair_match(txt))))
      Label(txt, m) == IF m = 0 THEN r ELSE Category(txt, category_map[m][2])
      Text(txt) ==
        Label(txt, MinPos({k \in 1..Len(category_map) : Contains(txt, category_map[k][1])}))
  IN Text(Lower(line_text(lines[i])))

RECURSIVE account_categories(_, _, _)
\* lines 600-658: every line in turn, later lines overwriting earlier ones
account_categories(r, lines, i) ==
  IF i > Len(lines) THEN r
  ELSE account_categories(account_line(r, lines, i), lines, i + 1)

\* parse_count_count_pair (lines 55-65): re.search(r"(\d+)\s*/\s*(\d+)", s)
parse_count_count_pair(s) ==
  LET Second(i) == LET a == SkipSpaces(s, SkipDigits(s, i))
                   IN IF a <= Len(s) /\ Ch(s, a) = "/" THEN SkipSpaces(s, a + 1) ELSE 0
      i == MinPos({k \in 1..Len(s) :
                     /\ IsDigit(Ch(s, k))
                     /\ Second(k) # 0 /\ Second(k) <= Len(s)
                     /\ IsDigit(Ch(s, Second(k)))})
  IN IF i = 0 THEN <<NoneV, NoneV>>
     ELSE <<IntV(ParseInt(SubSeq(s, i, SkipDigits(s, i) - 1))),
            IntV(ParseInt(SubSeq(s, Second(i), SkipDigits(s, Second(i)) - 1)))>>

\* lines 662-691 for the line at position i
collections_line(r, lines, i) ==
  LET Write(ab) ==
        Put(Put(Put(r, "collections", DictV(<<Entry("open", ab[1]), Entry("closed", ab[2])>>)),
                "collections_open", ab[1]),
            "collections_closed", ab[2])
      Bare(nums) ==
        IF nums = <<>> THEN r
        ELSE Write(<<IntV(ParseInt(line_text(nums[1]))),
                     IF Len(nums) >= 2 THEN IntV(ParseInt(line_text(nums[2]))) ELSE NoneV>>)
      Pair(nxt, p) ==
        IF p # 0 THEN Write(parse_count_count_pair(line_text(nxt[p])))
        ELSE Bare(SelectSeq(nxt, LAMBDA ln : IsDigitStr(line_text(ln))))
      Next5(nxt) ==
        Pair(nxt, FirstIdx(nxt,
               LAMBDA ln : parse_count_count_pair(line_text(ln)) # <<NoneV, NoneV>>))
  IN IF ~Contains(Lower(line_text(lines[i])), "collections") THEN r
     ELSE Next5(Slice(lines, i, i + 5))

RECURSIVE collections(_, _, _)
\* lines 660-692
collections(r, lines, i) ==
  IF i > Len(lines) THEN r
  ELSE collections(collections_line(r, lines, i), lines, i + 1)

\* re.search(r"(\d+)\s+inq", nt, re.IGNORECASE): <<int(group 1)>> or <<>>
inq_match(nt) ==
  LET low == Lower(nt)
      i == MinPos({k \in 1..Len(nt) :
                     /\ IsDigit(Ch(nt, k))
                     /\ SkipSpaces(nt, SkipDigits(nt, k)) > SkipDigits(nt, k)
                     /\ At(low, SkipSpaces(nt, SkipDigits(nt, k)), "inq")})
  IN IF i = 0 THEN <<>> ELSE <<ParseInt(SubSeq(nt, i, SkipDigits(nt, i) - 1))>>

RECURSIVE SumSeq(_)
SumSeq(ns) == IF ns = <<>> THEN 0 ELSE Head(ns) + SumSeq(Tail(ns))

\* inquiries_line that counts a match only when its line names months
inquiries_line_MonthsOnly(r, lines, i) ==
  LET Write(total) ==
        Put(Put(r, "inquiries_last_6_months", IntV(total)), "inquiries_6mo", IntV(total))
      Timed(nt) == Contains(Lower(nt), "mo")
      Hits(low, nxt, at) ==
        IF Contains(low, "inquir") /\ at # <<>>
        THEN Write(SumSeq([k \in 1..Len(at) |->
                             IF Timed(line_text(nxt[at[k]]))
                             THEN inq_match(line_text(nxt[at[k]]))[1] ELSE 0]))
        ELSE r
      Next20(low, nxt) ==
        Hits(low, nxt, SelectSeq([k \in 1..Len(nxt) |-> k],
                                 LAMBDA k : inq_match(line_text(nxt[k])) # <<>>))
  IN Next20(Lower(line_text(lines[i])), Slice(lines, i, i + 19))

\* lines 696-718 for the line at position i: every count of the next 19 lines
\* is added, whatever its time window says (lines 707-715 add n on each path)
inquiries_line(r, lines, i) ==
  LET \* re.search(r"last\s*6\s*months", txt, re.IGNORECASE)
      last6(low) == \E k \in 1..Len(low) :
                      /\ At(low, k, "last")
                      /\ At(low, SkipSpaces(low, k + 4), "6")
                      /\ At(low, SkipSpaces(low, SkipSpaces(low, k + 4) + 1), "months")
      Write(total) ==
        Put(Put(r, "inquiries_last_6_months", IntV(total)), "inquiries_6mo", IntV(total))
      Hits(low, hits) ==
        IF Contains(low, "inquir") /\ (hits # <<>> \/ last6(low))
        THEN Write(SumSeq([k \in 1..Len(hits) |-> hits[k][1]]))
        ELSE r
      Next20(low, nxt) ==
        Hits(low, SelectSeq([k \in 1..Len(nxt) |-> inq_match(line_text(nxt[k]))],
                            LAMBDA m : m # <<>>))
  IN Next20(Lower(line_text(lines[i])), Slice(lines, i, i + 19))

RECURSIVE inquiries(_, _, _)
\* lines 694-718
inquiries(r, lines, i) ==
  IF i > Len(lines) THEN r
  ELSE inquiries(inquiries_line(r, lines, i), lines, i + 1)

\* \w* from position i
SkipWord(s, i) ==
  IF i < 1 THEN i
  ELSE SkipWhile(s, i, DigitSet \cup {"_"} \cup DOMAIN LowerOf \cup DOMAIN UpperOf)

RECURSIVE WordStarts(_, _)
\* the positions (?:\w+\s+)* can reach from position p
WordStarts(s, p) ==
  LET w == SkipWord(s, p)
      q == SkipSpaces(s, w)
  IN IF w > p /\ q > w THEN {p} \cup WordStarts(s, q) ELSE {p}

\* re.search(r'(\d+)\s+(?:\w+\s+)*late[s]?\s+.*\bin\b\s*(\d+)(?:\s*-\s*(\d+))?
\* \s*(mo|yr|yrs)?', nt, re.IGNORECASE) of line 730: <<int(group 1), group 4>>
\* (group 4 "" when it did not take part), or <<>> without a match.  The
\* word run and `.*` are greedy: the last 'late' word that works, then the
\* last 'in N' after it on the same text line.
late_match(nt) ==
  LET low == Lower(nt)
      n == Len(nt)
      \* position after late[s]? for a 'late' at q
      LateEnd(q) == IF q + 4 <= n /\ Ch(low, q + 4) = "s" THEN q + 5 ELSE q + 4
      \* the starts of `in` that `\s+.*\bin\b\s*\d` can reach after a 'late' at q
      Ins(q) == LET m == SkipSpaces(nt, LateEnd(q))
                IN {x \in m..n :
                      /\ m > LateEnd(q)
                      /\ \A k \in m..(x - 1) : Ch(nt, k) # "\n"
                      /\ WordHere(low, x, "in")
                      /\ SkipSpaces(nt, x + 2) <= n
                      /\ IsDigit(Ch(nt, SkipSpaces(nt, x + 2)))}
      Lates(i) == LET d == SkipDigits(nt, i)
                  IN IF SkipSpaces(nt, d) = d THEN {}
                     ELSE {q \in WordStarts(nt, SkipSpaces(nt, d)) :
                             At(low, q, "late") /\ Ins(q) # {}}
      \* (?:\s*-\s*(\d+))? after the number that ends before d2, its dash
      \* looked for at `dash` and its digits at d3: the position after it
      Range(d2, dash, d3) ==
        IF dash <= n /\ Ch(nt, dash) = "-" /\ d3 <= n /\ IsDigit(Ch(nt, d3))
        THEN SkipDigits(nt, d3) ELSE d2
      AfterDash(d2, dash) == Range(d2, dash, SkipSpaces(nt, dash + 1))
      AfterNum(d2) == AfterDash(d2, SkipSpaces(nt, d2))
      UnitAt(u) == IF At(low, u, "mo") THEN "mo" ELSE IF At(low, u, "yr") THEN "yr" ELSE ""
      \* group 4 for the `in` at x
      Unit(x) == UnitAt(SkipSpaces(nt, AfterNum(SkipDigits(nt, SkipSpaces(nt, x + 2)))))
      Found(i) ==
        IF i = 0 THEN <<>>
        ELSE <<ParseInt(SubSeq(nt, i, SkipDigits(nt, i) - 1)),
               Unit(MaxPos(Ins(MaxPos(Lates(i)))))>>
  IN Found(MinPos({k \in 1..n : IsDigit(Ch(nt, k)) /\ Lates(k) # {}}))

\* re.search(r'lates\s*\+2yr\s*:\s*(\d+)', nt, re.IGNORECASE) of line 742:
\* <<int(group 1)>> or <<>>
lates2yr_match(nt) ==
  LET low == Lower(nt)
      Num(k) == LET a == SkipSpaces(low, k + 5)
                    b == SkipSpaces(low, a + 4)
                IN IF At(low, k, "lates") /\ At(low, a, "+2yr") /\ At(low, b, ":")
                   THEN SkipSpaces(low, b + 1) ELSE 0
      Ok(d) == d # 0 /\ d <= Len(low) /\ IsDigit(Ch(low, d))
      Group(d) == IF d = 0 THEN <<>> ELSE <<ParseInt(SubSeq(nt, d, SkipDigits(nt, d) - 1))>>
      Found(i) == IF i = 0 THEN <<>> ELSE Group(Num(i))
  IN Found(MinPos({k \in 1..Len(low) : Ok(Num(k))}))

RECURSIVE late_window_BothZero(_, _)
\* late_window whose '+2yr' fallback needs both buckets to be 0
late_window_BothZero(nxt, acc) ==
  LET Add(nt, m2, m) ==
        IF m2 # <<>>
        THEN (IF Contains(m2[2], "mo") \/ HasWord(Lower(nt), "mo")
              THEN <<acc[1] + m2[1], acc[2]>> ELSE <<acc[1], acc[2] + m2[1]>>)
        ELSE IF m # <<>> /\ acc = <<0, 0>> THEN <<acc[1], acc[2] + m[1]>>
        ELSE acc
      Line(nt) == Add(nt, late_match(nt), lates2yr_match(nt))
  IN IF nxt = <<>> THEN acc
     ELSE late_window_BothZero(Tail(nxt), Line(line_text(Head(nxt))))

RECURSIVE late_window_UnitOnly(_, _)
\* late_window without the search for a word 'mo' on the line
late_window_UnitOnly(nxt, acc) ==
  LET Add(nt, m2, m) ==
        IF m2 # <<>>
        THEN (IF Contains(m2[2], "mo")
              THEN <<acc[1] + m2[1], acc[2]>> ELSE <<acc[1], acc[2] + m2[1]>>)
        ELSE IF m # <<>> /\ acc[2] = 0 THEN <<acc[1], acc[2] + m[1]>>
        ELSE acc
      Line(nt) == Add(nt, late_match(nt), lates2yr_match(nt))
  IN IF nxt = <<>> THEN acc
     ELSE late_window_UnitOnly(Tail(nxt), Line(line_text(Head(nxt))))

RECURSIVE late_window(_, _)
\* the loop of lines 727-745 over the window: <<l2, lgt2>>
late_window(nxt, acc) ==
  LET Add(nt, m2, m) ==
        IF m2 # <<>>
        THEN (IF Contains(m2[2], "mo") \/ HasWord(Lower(nt), "mo")
              THEN <<acc[1] + m2[1], acc[2]>> ELSE <<acc[1], acc[2] + m2[1]>>)
        ELSE IF m # <<>> /\ acc[2] = 0 THEN <<acc[1], acc[2] + m[1]>>
        ELSE acc
      Line(nt) == Add(nt, late_match(nt), lates2yr_match(nt))
  IN IF nxt = <<>> THEN acc
     ELSE late_window(Tail(nxt), Line(line_text(Head(nxt))))

\* lines 722-748 for the line at position i
late_pays_line(r, lines, i) ==
  LET Write(b) ==
        IF b = <<0, 0>> THEN r
        ELSE Put(Put(r, "late_pays",
                     DictV(<<Entry("last_2_years", IntV(b[1])),
                             Entry("last_over_2_years", IntV(b[2]))>>)),
                 "late_pays_gt2yr", IntV(b[2]))
      Labelled(txt) == Contains(txt, "late pay") \/ Contains(txt, "lates +2yr")
  IN IF Labelled(Lower(line_text(lines[i])))
     THEN Write(late_window(Slice(lines, i, i + 19), <<0, 0>>))
     ELSE r

\* late_pays that stops at the first heading that gives a value
late_pays_StopAtFirst(r, lines, i) ==
  LET Write(h) == IF h = 0 THEN r ELSE late_pays_line(r, lines, h)
  IN Write(MinPos({j \in i..Len(lines) : late_pays_line(r, lines, j) # r}))

RECURSIVE late_pays(_, _, _)
\* lines 720-748
late_pays(r, lines, i) ==
  IF i > Len(lines) THEN r
  ELSE late_pays(late_pays_line(r, lines, i), lines, i + 1)

\* _inum (lines 755-763): re.search(r'\$\s*([0-9,]+)', s) as an int, or None
inum(s) ==
  LET Start(k) == SkipSpaces(s, k + 1)
      Group(g) == IF g = "" THEN NoneV ELSE IntV(ParseInt(g))
      Found(i) ==
        IF i = 0 THEN NoneV
        ELSE Group(OnlyDigits(SubSeq(s, Start(i), SkipAmount(s, Start(i)) - 1)))
  IN Found(MinPos({k \in 1..Len(s) : Ch(s, k) = "$" /\ SkipAmount(s, Start(k)) > Start(k)}))

\* re.search(r'(\d+)%', s): <<int(group 1)>> or <<>>
percent_match(s) ==
  LET i == MinPos({k \in 1..Len(s) :
                     IsDigit(Ch(s, k)) /\ At(s, SkipDigits(s, k), "%")})
  IN IF i = 0 THEN <<>> ELSE <<ParseInt(SubSeq(s, i, SkipDigits(s, i) - 1))>>

\* credit_card_open_totals that keeps the parsed structure when no numeric
\* value was found
credit_card_open_totals_KeepEmpty(r) ==
  LET Percent(m) == IF m = <<>> THEN <<>> ELSE <<Entry("Percent", IntV(m[1]))>>
      Parsed(amounts, n) ==
        (IF n >= 1 THEN <<Entry("balance", inum(amounts[1].str))>> ELSE <<>>)
        \o (IF n >= 2 THEN Percent(percent_match(amounts[2].str)) ELSE <<>>)
        \o (IF n >= 2 THEN <<Entry("limit", inum(amounts[2].str))>> ELSE <<>>)
        \o (IF n >= 3 THEN <<Entry("Payment", inum(amounts[3].str))>> ELSE <<>>)
      Write(parsed) == Put(r, "credit_card_open_totals", DictV(parsed))
      Amounts(amounts) == Write(Parsed(amounts, Len(amounts)))
      List(a) == Amounts(IF Truthy(a) THEN a.list ELSE <<>>)
      Totals(cco) == IF IsDict(cco) THEN List(Get(cco.dict, "amounts")) ELSE r
  IN IF Has(r, "credit_card_open_totals") THEN Totals(Get(r, "credit_card_open_totals"))
     ELSE r

\* lines 751-780: the collected amounts by position
credit_card_open_totals(r) ==
  LET Percent(m) == IF m = <<>> THEN <<>> ELSE <<Entry("Percent", IntV(m[1]))>>
      Parsed(amounts, n) ==
        (IF n >= 1 THEN <<Entry("balance", inum(amounts[1].str))>> ELSE <<>>)
        \o (IF n >= 2 THEN Percent(percent_match(amounts[2].str)) ELSE <<>>)
        \o (IF n >= 2 THEN <<Entry("limit", inum(amounts[2].str))>> ELSE <<>>)
        \o (IF n >= 3 THEN <<Entry("Payment", inum(amounts[3].str))>> ELSE <<>>)
      Write(parsed) ==
        IF \E k \in 1..Len(parsed) : ~IsNone(parsed[k].v)
        THEN Put(r, "credit_card_open_totals", DictV(parsed))
        ELSE Put(r, "credit_card_open_totals", NoneV)
      Amounts(amounts) == Write(Parsed(amounts, Len(amounts)))
      List(a) == Amounts(IF Truthy(a) THEN a.list ELSE <<>>)
      Totals(cco) == IF IsDict(cco) THEN List(Get(cco.dict, "amounts")) ELSE r
  IN IF Has(r, "credit_card_open_totals") THEN Totals(Get(r, "credit_card_open_totals"))
     ELSE r

\* the section headers of line 796 and the table headers of line 799
FactorStops ==
  {"credit alerts", "public records", "categories", "inquir", "late pays", "credit report"}

table_headers ==
  {"open accounts", "revolving accounts", "line of credit accounts", "real estate accounts",
   "installment accounts", "miscellaneous accounts", "closed accounts",
   "no line of credit accounts", "no real estate accounts", "no installment accounts",
   "no miscellaneous accounts"}

\* the color words of line 808
ColorWords == {"red", "green", "black", "neutral", "amber"}

\* lines 806-833: the factor dict of one line
factor_of(ln) ==
  LET Dict(factor, rgb, color) ==
        DictV(<<Entry("factor", StrV(factor))>>
              \o (IF rgb # <<>>
                  THEN <<Entry("hex", StrV(format_hex(rgb))),
                         Entry("color", StrV(map_color_to_cat(rgb)))>>
                  ELSE IF color # "" THEN <<Entry("color", StrV(color))>>
                  ELSE <<>>))
      Cut(txt, color) ==
        Dict(IF color = "" THEN txt ELSE Strip(SubSeq(txt, 1, Len(txt) - Len(color))),
             SpanRgb(ln.spans[1]), color)
      Color(txt, tail) == Cut(txt, IF tail = {} THEN "" ELSE CHOOSE w \in tail : TRUE)
      \* re.search(r'\b(red|green|black|neutral|amber)\b\s*$', txt, re.IGNORECASE)
      Ending(txt, low) ==
        Color(txt, {w \in ColorWords :
                      EndsWith(low, w) /\ Boundary(low, Len(low) - Len(w) + 1)})
      Text(txt) == Ending(txt, Lower(txt))
  IN Text(line_text(ln))

RECURSIVE factor_scan_SkipHeaders(_)
\* factor_scan that steps over a section or table header instead of stopping
factor_scan_SkipHeaders(nxt) ==
  IF nxt = <<>> THEN <<>>
  ELSE LET txt == line_text(Head(nxt))
           low == Lower(txt)
       IN IF txt = "" THEN <<>>
          ELSE IF txt = "#" \/ (\E w \in FactorStops : Contains(low, w)) \/ low \in table_headers
          THEN factor_scan_SkipHeaders(Tail(nxt))
          ELSE <<factor_of(Head(nxt))>> \o factor_scan_SkipHeaders(Tail(nxt))

\* the loop of lines 790-833: stop at a blank line, a section header or a
\* table header; skip '#'
factor_scan(nxt) ==
  LET Stops(txt, low) ==
        txt = "" \/ (\E w \in FactorStops : Contains(low, w)) \/ low \in table_headers
      stop == MinPos({i \in 1..Len(nxt) :
                       Stops(line_text(nxt[i]), Lower(line_text(nxt[i])))})
      Factors(kept) == [k \in 1..Len(kept) |-> factor_of(kept[k])]
  IN Factors(SelectSeq(SubSeq(nxt, 1, IF stop = 0 THEN Len(nxt) ELSE stop - 1),
                       LAMBDA ln : line_text(ln) # "#"))

\* lines 782-840: the factors after the first 'credit factors' line replace
\* the placeholders, and the three counts are derived
credit_factors(r, lines) ==
  LET Count(factors, c) ==
        Cardinality({k \in 1..Len(factors) : Get(factors[k].dict, "color") = StrV(c)})
      Write(factors) ==
        IF factors = <<>> THEN r
        ELSE Put(Put(Put(Put(r, "credit_factors", ListV(factors)),
                         "red_credit_factors_count", IntV(Count(factors, "red"))),
                     "green_credit_factors_count", IntV(Count(factors, "green"))),
                 "black_credit_factors_count", IntV(Count(factors, "black")))
      Found(cf) == IF cf = 0 THEN r ELSE Write(factor_scan(Slice(lines, cf, cf + 119)))
  IN Found(FirstIdx(lines, LAMBDA ln : Contains(Lower(line_text(ln)), "credit factors")))

\* only a hex counts as color metadata
compute_candidate_score_HexOnly(cand) ==
  LET Sum(text) ==
        (IF Len(text) < 40 THEN 2 ELSE 0)
        + (IF HasDigit(text) THEN 1 ELSE 0)
        + (IF Contains(text, "paid") THEN 1 ELSE 0)
        + (IF Truthy(Get(cand, "hex")) THEN 3 ELSE 0)
  IN Sum(IF Truthy(Get(cand, "factor")) THEN Lower(Get(cand, "factor").str) ELSE "")

\* compute_candidate_score (lines 862-874) of a factor dict
compute_candidate_score(cand) ==
  LET f == Get(cand, "factor")
      text == IF Truthy(f) THEN Lower(f.str) ELSE ""
  IN (IF Len(text) < 40 THEN 2 ELSE 0)
     + (IF HasDigit(text) THEN 1 ELSE 0)
     + (IF Contains(text, "paid") THEN 1 ELSE 0)
     + (IF Truthy(Get(cand, "hex")) \/ Truthy(Get(cand, "color")) THEN 3 ELSE 0)

\* lines 842-846
candidate_scores(r, on) ==
  LET cfs == IF Has(r, "credit_factors") THEN Get(r, "credit_factors").list ELSE <<>>
  IN IF ~on THEN r
     ELSE Put(r, "candidate_scores",
              ListV([k \in 1..Len(cfs) |->
                       DictV(<<Entry("factor", Get(cfs[k].dict, "factor")),
                               Entry("score", IntV(compute_candidate_score(cfs[k].dict)))>>)]))

(***************************************************************************)
(* State.                                                                  *)
(***************************************************************************)
VARIABLES
  doc_or_path,               \* the argument of extract_pdf_all_fields: [kind, path]
  pdf,                       \* the document behind it: a sequence of pages
  fault,                     \* where opening, iterating or reading it fails
  page_limit,                \* option page_limit
  include_spans,             \* option include_spans
  include_candidate_scores,  \* option include_candidate_scores
  pi,                        \* index of the next page the adapter takes
  all_lines,                 \* the Document Line Sequence
  rec,                       \* the Result Record (raw record)
  canon,                     \* build_text_only_gt(rec)
  canon2,                    \* build_text_only_gt(canon)
  pc,                        \* position in the run
  given,                     \* the argument of a helper function called on its own
  result                     \* what that call returned

vars ==
  <<doc_or_path, pdf, fault, page_limit, include_spans, include_candidate_scores,
    pi, all_lines, rec, canon, canon2, pc, given, result>>

inputs == <<doc_or_path, pdf, fault, page_limit, include_spans, include_candidate_scores>>

helper == <<given, result>>

\* page_limit: int = 2 in the signature of extract_pdf_all_fields
DefaultPageLimit == 2

NoFault == [kind |-> "none", at |-> 0]

(***************************************************************************)
(* extract_pdf_all_fields, one action per section of the function.         *)
(***************************************************************************)
\* lines 193-210: a path is opened (fitz.open raises for a file that cannot
\* be opened, and the call raises with it) and recorded; anything else is
\* taken as the document
Open ==
  /\ pc = "start"
  /\ IF doc_or_path.kind = "path" /\ fault.kind = "open"
     THEN pc' = "raised" /\ rec' = rec
     ELSE /\ pc' = "adapt"
          /\ rec' = IF doc_or_path.kind = "path" /\ doc_or_path.path # ""
                    THEN <<Entry("pdf_file", StrV(doc_or_path.path)),
                           Entry("source", StrV(doc_or_path.path)),
                           Entry("filename", StrV(basename(doc_or_path.path)))>>
                    ELSE <<>>
  /\ UNCHANGED <<inputs, pi, all_lines, canon, canon2, helper>>

\* lines 225-250, one iteration of `for pi, page in enumerate(doc)`: the
\* lines of the page are appended; when taking the next page or reading it
\* raises, the except clause empties all_lines and the loop is over
Adapt ==
  /\ pc = "adapt"
  /\ IF fault.kind \in {"iter", "read"} /\ fault.at = pi
     THEN all_lines' = <<>> /\ pi' = pi /\ pc' = "adapted"
     ELSE IF pi >= Len(pdf)
     THEN all_lines' = all_lines /\ pi' = pi /\ pc' = "adapted"
     ELSE /\ all_lines' = all_lines \o AdaptPage(pdf[pi + 1], pi)
          /\ pi' = pi + 1
          /\ pc' = "adapt"
  /\ UNCHANGED <<inputs, rec, canon, canon2, helper>>

\* a section of the function that only rewrites the record
Section(from, to, r) ==
  /\ pc = from
  /\ rec' = r
  /\ pc' = to
  /\ UNCHANGED <<inputs, pi, all_lines, canon, canon2, helper>>

\* lines 252-254
Placeholders ==
  Section("adapted", "card_totals",
    Put(Put(rec, "all_lines_obj", ListV([i \in 1..Len(all_lines) |-> LineValue(all_lines[i])])),
        "credit_factors", ListV(extract_credit_factors_from_doc(pdf, fault, page_limit))))

\* lines 256-298
LocateCardAmounts ==
  Section("card_totals", "monthly_color",
    credit_card_open_totals_raw(rec, all_lines, include_spans))

\* lines 299-323
LocateMonthlyColor ==
  Section("monthly_color", "age", monthly_payments_color(rec, all_lines, include_spans))

\* lines 333-342
LocateAge == Section("age", "address", age(rec, all_lines))

\* lines 344-380
LocateAddress == Section("address", "credit_score", address(rec, all_lines))

\* lines 383-457
LocateCreditScore ==
  Section("credit_score", "monthly_payments", credit_score(rec, all_lines, include_spans))

\* lines 459-469
LocateMonthlyPayments ==
  Section("monthly_payments", "indicators", monthly_payments(rec, all_lines, include_spans))

\* lines 471-590
LocateIndicators ==
  Section("indicators", "accounts", bool_indicators(rec, all_lines, include_spans, 1))

\* lines 592-658
LocateAccounts == Section("accounts", "collections", account_categories(rec, all_lines, 1))

\* lines 660-692
LocateCollections == Section("collections", "inquiries", collections(rec, all_lines, 1))

\* lines 694-718
LocateInquiries == Section("inquiries", "late_pays", inquiries(rec, all_lines, 1))

\* lines 720-748
LocateLatePays == Section("late_pays", "card_parse", late_pays(rec, all_lines, 1))

\* lines 751-780
ParseCardTotals == Section("card_parse", "factors", credit_card_open_totals(rec))

\* lines 782-840
LocateFactors == Section("factors", "scores", credit_factors(rec, all_lines))

\* lines 842-848
ScoreAndReturn ==
  Section("scores", "returned", candidate_scores(rec, include_candidate_scores))

(***************************************************************************)
(* Canonicalization of a finished record: extract_to_canonical and         *)
(* scripts/pdf_to_ground_truth.py main() hand the raw record to            *)
(* build_text_only_gt with the same include_spans; fixture tooling feeds   *)
(* canonical records back in.                                              *)
(***************************************************************************)
Canonicalize ==
  /\ pc = "returned"
  /\ canon' = BuildTextOnlyGt(rec, include_spans)
  /\ pc' = "canonical"
  /\ UNCHANGED <<inputs, pi, all_lines, rec, canon2, helper>>

Recanonicalize ==
  /\ pc = "canonical"
  /\ canon2' = BuildTextOnlyGt(canon, include_spans)
  /\ pc' = "recanonical"
  /\ UNCHANGED <<inputs, pi, all_lines, rec, canon, helper>>

(***************************************************************************)
(* Documents: up to MaxPages pages holding up to MaxLines layout lines in  *)
(* all, each line taken from a catalogue of span sequences and given the   *)
(* bbox of its place on the page.                                          *)
(***************************************************************************)
Span(t, c) == [text |-> t, color |-> c]

\* the layout line at (0-based) place i of a page; coordinates in tenths
LayoutLine(spans, i) ==
  [spans |-> spans, bbox |-> <<360, 105 * i + 720, 2400, 105 * i + 815>>]

RECURSIVE SeqsUpTo(_, _)
\* the sequences of at most n elements of C
SeqsUpTo(C, n) ==
  IF n = 0 THEN {<<>>}
  ELSE {<<>>} \cup {<<c>> \o s : c \in C, s \in SeqsUpTo(C, n - 1)}

RECURSIVE Documents(_, _, _)
\* the documents of at most `pages` pages and `budget` lines over catalogue C
Documents(C, pages, budget) ==
  IF pages = 0 THEN {<<>>}
  ELSE {<<>>} \cup
       UNION {{<<[i \in 1..Len(pg) |-> LayoutLine(pg[i], i - 1)]>> \o rest :
                 rest \in Documents(C, pages - 1, budget - Len(pg))} :
              pg \in SeqsUpTo(C, budget)}

\* lines of a credit report that the positional locators react to: a score
\* and a payment in color, card totals, an indicator with its value in a
\* second span, a factor, an age, and a layout line without spans
ReportLines ==
  {<<Span("Credit Score", NoneV)>>,
   <<Span("700", IntV(13369344))>>,
   <<Span("$549/mo", IntV(43520))>>,
   <<Span("Credit Card Open Totals", NoneV)>>,
   <<Span("$20,483", IntV(0))>>,
   <<Span("Fraud Alert", NoneV), Span("Yes", IntV(13369344))>>,
   <<Span("Credit Factors", NoneV)>>,
   <<Span("Paid off 2 loans", IntV(43520))>>,
   <<Span("Age: 49", NoneV)>>,
   <<>>}

\* the ways the document behind an argument can fail: a path that cannot be
\* opened; for a document, taking page `at` raises (after `at` pages were
\* yielded) or reading page `at` raises; a non-document cannot be iterated
Faults(arg, pages) ==
  IF arg.kind \in {"int", "none"} THEN {[kind |-> "iter", at |-> 0]}
  ELSE IF arg.kind = "path" THEN {NoFault, [kind |-> "open", at |-> 0]}
  ELSE {NoFault}
       \cup {[kind |-> "iter", at |-> f] : f \in 0..Len(pages)}
       \cup {[kind |-> "read", at |-> f] : f \in 0..(Len(pages) - 1)}

\* the arguments of extract_pdf_all_fields: a path, an opened document, and
\* the unsupported types int and None
Arguments ==
  {[kind |-> "path", path |-> "reports/user_1.pdf"], [kind |-> "doc", path |-> ""],
   [kind |-> "int", path |-> ""], [kind |-> "none", path |-> ""]}

\* a call of extract_pdf_all_fields over the documents of catalogue C
Call(C) ==
  /\ doc_or_path \in Arguments
  /\ pdf \in IF doc_or_path.kind \in {"int", "none"} THEN {<<>>}
             ELSE Documents(C, MaxPages, MaxLines)
  /\ fault \in Faults(doc_or_path, pdf)
  /\ page_limit \in {1, DefaultPageLimit}
  /\ include_spans \in BOOLEAN
  /\ include_candidate_scores \in BOOLEAN
  /\ pi = 0
  /\ all_lines = <<>>
  /\ rec = <<>>
  /\ canon = <<>>
  /\ canon2 = <<>>
  /\ pc = "start"
  /\ given = NoneV
  /\ result = NoneV

Init == Call(ReportLines)

Next ==
  \/ Open
  \/ Adapt
  \/ Placeholders
  \/ LocateCardAmounts
  \/ LocateMonthlyColor
  \/ LocateAge
  \/ LocateAddress
  \/ LocateCreditScore
  \/ LocateMonthlyPayments
  \/ LocateIndicators
  \/ LocateAccounts
  \/ LocateCollections
  \/ LocateInquiries
  \/ LocateLatePays
  \/ ParseCardTotals
  \/ LocateFactors
  \/ ScoreAndReturn
  \/ Canonicalize
  \/ Recanonicalize

Spec == Init /\ [][Next]_vars

\* account-summary lines: a category without accounts, the same category
\* with a count and a total, a layout line whose two spans are two columns
\* of the summary, and a category whose pair is on the next line
AccountLines ==
  {<<Span("No Real Estate Accounts", NoneV)>>,
   <<Span("Real Estate 2 / $300", NoneV)>>,
   <<Span("Revolving Accounts 3 / $5", NoneV), Span("No Real Estate Accounts", NoneV)>>,
   <<Span("No Installment Accounts", NoneV)>>}

InitAcct == Call(AccountLines)

SpecAcct == InitAcct /\ [][Next]_vars

(***************************************************************************)
(* Properties of extract_pdf_all_fields (checked under Spec and SpecAcct). *)
(***************************************************************************)
\* extract_pdf_all_fields has returned rec
Returned == pc \in {"returned", "canonical", "recanonical"}

\* build_text_only_gt has returned canon
Canonicalized == pc \in {"canonical", "recanonical"}

\* d has no top-level key ending in _bbox, _page or _spans
NoMetaKeys(d) == \A i \in 1..Len(d) : ~IsMetaKey(d[i].k)

\* C1: with include_spans=False neither the raw record of
\* extract_pdf_all_fields nor the canonical record of build_text_only_gt has a
\* top-level key ending in _bbox, _page or _spans, for every document (the
\* record has none at any point of its construction either).
C1_NoPositionalKeys ==
  ~include_spans => NoMetaKeys(rec) /\ NoMetaKeys(canon) /\ NoMetaKeys(canon2)

\* a document with a colored '/mo' payment line (and so with a position that
\* include_spans=True would record) was extracted and canonicalized without spans
C1_Witness ==
  /\ pc = "canonical"
  /\ ~include_spans
  /\ \E i \in 1..Len(all_lines) :
       Contains(first_text(all_lines[i]), "/mo") /\ all_lines[i].spans[1].rgb # <<>>
  /\ Has(rec, "monthly_payments") /\ Has(canon, "monthly_payments")
  /\ fault = NoFault

RECURSIVE Positional(_)
\* v holds positional data at some depth: a page, bbox or spans field, or a
\* key ending in _page, _bbox or _spans
Positional(v) ==
  IF IsDict(v)
  THEN \E i \in 1..Len(v.dict) :
         \/ v.dict[i].k \in {"page", "bbox", "spans"}
         \/ IsMetaKey(v.dict[i].k)
         \/ Positional(v.dict[i].v)
  ELSE IF IsList(v) THEN \E i \in 1..Len(v.list) : Positional(v.list[i])
  ELSE FALSE

\* C2: with include_spans=False the record of extract_pdf_all_fields and the
\* canonical record hold no positional data at any depth: no page number, no
\* bounding box, no span list, and no credit_factors entry with a page, bbox
\* or spans field (stated for the documents that are read without a failure).
C2_NoPositionalData ==
  ~include_spans /\ fault = NoFault =>
    /\ Returned => ~Positional(DictV(rec))
    /\ Canonicalized => ~Positional(DictV(canon))

\* the keys extract_pdf_all_fields sets without having located a field
BookkeepingKeys ==
  {"pdf_file", "source", "filename", "all_lines_obj", "credit_factors", "candidate_scores"}

\* r carries no located field: only bookkeeping keys and a null
\* monthly_payments_color
NothingExtracted(r) ==
  \A i \in 1..Len(r) :
    \/ r[i].k \in BookkeepingKeys
    \/ r[i].k = "monthly_payments_color" /\ IsNone(r[i].v)

\* C3: when iterating the document or reading a page fails, the Document Line
\* Sequence is empty, extract_pdf_all_fields returns without raising, and the
\* record carries no extracted field and an empty credit_factors.
C3_FailureGivesEmptyRecord ==
  fault.kind \in {"iter", "read"} =>
    /\ pc # "raised"
    /\ Returned =>
         /\ all_lines = <<>>
         /\ Get(rec, "all_lines_obj") = ListV(<<>>)
         /\ NothingExtracted(rec)
         /\ Get(rec, "credit_factors") = ListV(<<>>)

\* C4: a call of extract_pdf_all_fields with an argument that is neither a
\* path nor a document (an int, None) raises to the caller and returns no
\* record.
C4_UnsupportedTypeRaises == doc_or_path.kind \in {"int", "none"} => ~Returned

\* "no <category> accounts" for a label of category_map
NoAccountsPhrase(label) ==
  IF EndsWith(label, " accounts") THEN "no " \o label ELSE "no " \o label \o " accounts"

\* some line of the document says that category k of category_map has no accounts
SaysNoAccounts(k) ==
  \E i \in 1..Len(all_lines) :
    Contains(Lower(line_text(all_lines[i])), NoAccountsPhrase(category_map[k][1]))

\* C10: when a line of the document says 'no <category> accounts', the
\* category's count and total are both 0 in the record, under the nested key
\* and under the two flat keys, whatever other lines the document holds.
C10_NoAccountsIsZero ==
  Returned =>
    \A k \in 1..Len(category_map) :
      SaysNoAccounts(k) =>
        LET nested == category_map[k][2]
        IN /\ Get(rec, nested) = DictV(<<Entry("count", IntV(0)), Entry("amount", IntV(0))>>)
           /\ Get(rec, AccountMapping[nested][1]) = IntV(0)
           /\ Get(rec, AccountMapping[nested][2]) = IntV(0)

(***************************************************************************)
(* Raw records handed to the Canonicalizer directly: the shapes the        *)
(* extractor writes (nested dicts beside flat keys, aliases, positional    *)
(* keys) and the legacy shapes fixtures carry (null buckets, a nested      *)
(* credit_score, a {"rec": ...} wrapper).                                  *)
(***************************************************************************)
D2(k1, v1, k2, v2) == DictV(<<Entry(k1, v1), Entry(k2, v2)>>)

RawValues ==
  [late_pays |-> {D2("last_2_years", IntV(2), "last_over_2_years", IntV(1)),
                  D2("last_2_years", NoneV, "last_over_2_years", IntV(3)),
                  NoneV},
   late_pays_lt2yr |-> {IntV(4)},
   late_pays_gt2yr |-> {IntV(1)},
   revolving_accounts_open |-> {D2("count", IntV(2), "amount", IntV(300))},
   revolving_open_total |-> {IntV(300)},
   real_estate_open_count |-> {IntV(1)},
   collections |-> {D2("open", IntV(1), "closed", IntV(0))},
   inquiries_last_6_months |-> {IntV(3)},
   inquiries_6mo |-> {IntV(3)},
   inquiries_lt6mo |-> {IntV(2)},
   credit_score |-> {IntV(700), D2("value", IntV(700), "color", StrV("red"))},
   credit_score_bbox |-> {ListV(<<IntV(0), IntV(0), IntV(5), IntV(5)>>)},
   monthly_payments |-> {IntV(123)},
   credit_factors |-> {ListV(<<DictV(<<Entry("factor", StrV("Paid off 2 loans")),
                                       Entry("color", StrV("green"))>>)>>)}]

RawEntries == UNION {{Entry(k, v) : v \in RawValues[k]} : k \in DOMAIN RawValues}

RECURSIVE RawRecordsOfLen(_)
\* the raw records of exactly n entries with pairwise distinct keys
RawRecordsOfLen(n) ==
  IF n = 0 THEN {<<>>}
  ELSE {Append(r, e) : r \in RawRecordsOfLen(n - 1), e \in RawEntries}

DistinctKeys(r) == \A i, j \in 1..Len(r) : r[i].k = r[j].k => i = j

RawRecords ==
  LET flat == {r \in UNION {RawRecordsOfLen(n) : n \in 0..MaxKeys} : DistinctKeys(r)}
  IN flat \cup {<<Entry("rec", DictV(r))>> : r \in {x \in flat : Len(x) = 1}}

InitCanon ==
  /\ doc_or_path = [kind |-> "doc", path |-> ""]
  /\ pdf = <<>>
  /\ pi = 0
  /\ fault = NoFault
  /\ page_limit = DefaultPageLimit
  /\ include_spans \in BOOLEAN
  /\ include_candidate_scores = FALSE
  /\ all_lines = <<>>
  /\ rec \in RawRecords
  /\ canon = <<>>
  /\ canon2 = <<>>
  /\ pc = "returned"
  /\ given = NoneV
  /\ result = NoneV

NextCanon == Canonicalize \/ Recanonicalize

SpecCanon == InitCanon /\ [][NextCanon]_vars

(***************************************************************************)
(* Properties of the Canonicalizer (checked under SpecCanon).              *)
(***************************************************************************)
\* the record build_text_only_gt reads: the argument, unwrapped
Raw == UnwrapRec(rec)

AccountKeys == {AccountSeq[i] : i \in 1..Len(AccountSeq)}

LatePayKeys == {LatePaySeq[i] : i \in 1..Len(LatePaySeq)}

\* the entries of d whose key is not positional
NonMeta(d) == SelectSeq(d, LAMBDA e : ~IsMetaKey(e.k))

\* the raw keys a canonical key k is taken from: k itself, or the nested
\* dict it is flattened from
OriginsOf(k) ==
  {i \in 1..Len(Raw) :
     \/ Raw[i].k = k
     \/ /\ IsDict(Raw[i].v)
        /\ \/ Raw[i].k = "collections" /\ k \in {"collections_open", "collections_closed"}
           \/ Raw[i].k \in NestedAccountKeys
              /\ k \in {AccountMapping[Raw[i].k][1], AccountMapping[Raw[i].k][2]}}

\* where k was first seen in the raw record (0: never)
FirstSeen(k) == MinPos(OriginsOf(k))

\* the keys of the canonical record that are neither account nor late-pay keys
OtherKeys == KeySet(canon) \ (AccountKeys \cup LatePayKeys)

\* account keys first, count immediately before total, then the late-pay pair
AccountsThenLatePays ==
  /\ \A i, j \in 1..Len(canon) :
       i < j /\ canon[j].k \in AccountKeys => canon[i].k \in AccountKeys
  /\ \A n \in NestedAccountKeys :
       Has(canon, AccountMapping[n][1]) /\ Has(canon, AccountMapping[n][2])
         => IndexOf(canon, AccountMapping[n][2]) = IndexOf(canon, AccountMapping[n][1]) + 1
  /\ Has(canon, "late_pays_lt2yr") /\ Has(canon, "late_pays_gt2yr")
  /\ IndexOf(canon, "late_pays_gt2yr") = IndexOf(canon, "late_pays_lt2yr") + 1
  /\ \A i \in 1..Len(canon) :
       i < IndexOf(canon, "late_pays_lt2yr") => canon[i].k \in AccountKeys

C6_NoNestedKeys == Canonicalized => \A k \in NestedKeys : ~Has(canon, k)

LatePayExpected(flat, bucket) ==
  LET nested == IF IsDict(Get(Raw, "late_pays"))
                THEN LET b == Get(Get(Raw, "late_pays").dict, bucket)
                     IN {IF IsNone(b) THEN IntV(0) ELSE b}
                ELSE {}
      own == IF Has(Raw, flat) THEN {Get(Raw, flat)} ELSE {}
  IN IF nested \cup own = {} THEN {IntV(0)} ELSE nested \cup own

\* C8: every canonical record has late_pays_lt2yr and late_pays_gt2yr as
\* non-negative integers, taken from the nested buckets or the flat keys of the
\* raw record, 0 without late-pay information, a null nested bucket giving 0.
C8_LatePaysFlat ==
  Canonicalized =>
    /\ \A k \in LatePayKeys :
         Has(canon, k) /\ IsInt(Get(canon, k)) /\ Get(canon, k).int >= 0
    /\ Get(canon, "late_pays_lt2yr") \in LatePayExpected("late_pays_lt2yr", "last_2_years")
    /\ Get(canon, "late_pays_gt2yr") \in LatePayExpected("late_pays_gt2yr", "last_over_2_years")

\* a nested late_pays with a null within-2-years bucket was flattened to 0 and 3
C8_Witness ==
  /\ pc = "canonical"
  /\ IsDict(Get(Raw, "late_pays"))
  /\ IsNone(Get(Get(Raw, "late_pays").dict, "last_2_years"))
  /\ ~Has(Raw, "late_pays_lt2yr")
  /\ Get(canon, "late_pays_lt2yr") = IntV(0)
  /\ Get(canon, "late_pays_gt2yr") = IntV(3)

\* C9: a raw record that carries an inquiries count under
\* inquiries_last_6_months or under the alias inquiries_6mo has that count
\* under inquiries_last_6_months in the canonical record.
C9_InquiriesAlias ==
  Canonicalized =>
    \A k \in {"inquiries_last_6_months", "inquiries_6mo"} :
      Has(Raw, k) =>
        Has(canon, "inquiries_last_6_months")
        /\ Get(canon, "inquiries_last_6_months") = Get(Raw, k)

(***************************************************************************)
(* The account table: pairs written with and without a '$', on the line of *)
(* the category and on the line after it.                                  *)
(***************************************************************************)
PairLines ==
  {<<Span("Revolving Accounts 3 / 500", NoneV)>>,
   <<Span("Installment Accounts", NoneV)>>,
   <<Span("3 / 500", NoneV)>>,
   <<Span("Real Estate 2 / $300", NoneV)>>}

InitPair == Call(PairLines)

SpecPair == InitPair /\ [][Next]_vars

\* count and amount of category k in r, under the nested key and the flat keys
CategoryValues(r, k) ==
  LET nested == category_map[k][2]
      Field(key) == IF Has(r, key) THEN Get(r, key) ELSE NoneV
      Inner(v, f) == IF IsDict(v) /\ Has(v.dict, f) THEN Get(v.dict, f) ELSE NoneV
  IN << <<Inner(Field(nested), "count"), Inner(Field(nested), "amount")>>,
        <<Field(AccountMapping[nested][1]), Field(AccountMapping[nested][2])>> >>

\* C11: in the record of extract_pdf_all_fields every account category has
\* its count and its amount either both set to integers or both absent (null
\* or missing), under the nested key and under the flat keys, also for a pair
\* written without a '$'.
C11_CountAndAmountTogether ==
  Returned =>
    \A k \in 1..Len(category_map) :
      \A i \in 1..2 :
        IsInt(CategoryValues(rec, k)[i][1]) <=> IsInt(CategoryValues(rec, k)[i][2])

(***************************************************************************)
(* Sections of a report handed to extract_pdf_all_fields as an opened      *)
(* one-page document that is read without a failure: a heading line        *)
(* followed by up to MaxWindow lines of a catalogue.                       *)
(***************************************************************************)
\* most lines after the heading of a modelled section
MaxWindow == 3

\* the one-page document of the layout lines with these spans
OnePage(lines) == <<[i \in 1..Len(lines) |-> LayoutLine(lines[i], i - 1)]>>

\* the one-page documents of the lines `before`, then at most n lines of C
Sections(before, C, n) == {OnePage(before \o s) : s \in SeqsUpTo(C, n)}

\* a call of extract_pdf_all_fields on an opened document of D, page_limit
\* left at its default
Extract(D) ==
  /\ doc_or_path = [kind |-> "doc", path |-> ""]
  /\ pdf \in D
  /\ fault = NoFault
  /\ page_limit = DefaultPageLimit
  /\ include_spans \in BOOLEAN
  /\ include_candidate_scores \in BOOLEAN
  /\ pi = 0
  /\ all_lines = <<>>
  /\ rec = <<>>
  /\ canon = <<>>
  /\ canon2 = <<>>
  /\ pc = "start"
  /\ given = NoneV
  /\ result = NoneV

\* the late-pay lines of a report: month and year ranges, a year range on a
\* line that also names a month period, a count without a unit, and the
\* '+2yr' summary
LateLines ==
  {<<Span("2 Rev Lates in 4-6 mo", NoneV)>>,
   <<Span("40 RE Lates in 2-4 yrs", NoneV)>>,
   <<Span("past 12 mo: 1 Late in 3 yrs", NoneV)>>,
   <<Span("1 late in 3", NoneV)>>,
   <<Span("Lates +2yr: 3/5", NoneV)>>}

InitLate == Extract(Sections(<< <<Span("Late Pays", NoneV)>> >>, LateLines, MaxWindow))

SpecLate == InitLate /\ [][Next]_vars

\* the line at position i is a late-pay heading
LateHeading(i) ==
  LET Label(txt) == Contains(txt, "late pay") \/ Contains(txt, "lates +2yr")
  IN Label(Lower(line_text(all_lines[i])))

\* the late-pay fields of the record are those of the last heading whose
\* buckets B are not both 0, and are absent without such a heading
LatePaysAre(B(_)) ==
  LET Fields(b) ==
        /\ Has(rec, "late_pays")
        /\ Get(rec, "late_pays") = DictV(<<Entry("last_2_years", IntV(b[1])),
                                           Entry("last_over_2_years", IntV(b[2]))>>)
        /\ Has(rec, "late_pays_gt2yr")
        /\ Get(rec, "late_pays_gt2yr") = IntV(b[2])
      Last(h) ==
        IF h = 0 THEN ~Has(rec, "late_pays") /\ ~Has(rec, "late_pays_gt2yr")
        ELSE Fields(B(h))
  IN Last(MaxPos({i \in 1..Len(all_lines) : LateHeading(i) /\ B(i) # <<0, 0>>}))

\* the buckets of the heading at i when every line of the shape
\* 'N .. late(s) .. in X[-Y] unit' of its window counts by its unit alone
UnitBuckets(i) ==
  LET Sums(win) ==
        LET m(k) == late_match(line_text(win[k]))
            N(k, months) ==
              IF m(k) # <<>> /\ ((m(k)[2] = "mo") <=> months) THEN m(k)[1] ELSE 0
        IN <<SumSeq([k \in 1..Len(win) |-> N(k, TRUE)]),
             SumSeq([k \in 1..Len(win) |-> N(k, FALSE)])>>
  IN Sums(Slice(all_lines, i, i + 19))

\* C12 as stated: every line of the shape 'N .. late(s) .. in X[-Y] unit' in
\* the window of a late-pay heading adds N to last_2_years when its unit is
\* months and to last_over_2_years (late_pays_gt2yr) otherwise, and each
\* bucket of the record is the sum over these lines.
C12_BucketsByUnit == Returned => LatePaysAre(UnitBuckets)

\* the buckets of the heading at i: a line of the shape counts as months by
\* its unit or by a word 'mo' anywhere on it, and the first '+2yr' summary
\* with a positive number counts when no year line before it has counted
LateBuckets(i) ==
  LET Sums(win) ==
        LET text(k) == line_text(win[k])
            m(k) == late_match(text(k))
            Months(k) == m(k)[2] = "mo" \/ HasWord(Lower(text(k)), "mo")
            N(k, months) == IF m(k) # <<>> /\ (Months(k) <=> months) THEN m(k)[1] ELSE 0
            YearSum(j) == SumSeq([k \in 1..j |-> N(k, FALSE)])
            Summary(k) ==
              IF m(k) = <<>> /\ lates2yr_match(text(k)) # <<>>
              THEN lates2yr_match(text(k))[1] ELSE 0
            First(k0) == IF k0 # 0 /\ YearSum(k0) = 0 THEN Summary(k0) ELSE 0
        IN <<SumSeq([k \in 1..Len(win) |-> N(k, TRUE)]),
             YearSum(Len(win)) + First(MinPos({k \in 1..Len(win) : Summary(k) > 0}))>>
  IN Sums(Slice(all_lines, i, i + 19))

\* C12, amended: a line of the shape adds N to exactly one bucket, to
\* last_2_years when its unit is months or the line holds the word 'mo', to
\* last_over_2_years otherwise; a 'Lates +2yr: N' line adds N to
\* last_over_2_years while that bucket is still 0; each bucket is the sum of
\* these over the window, and late_pays_gt2yr equals last_over_2_years.
C12_Buckets == Returned => LatePaysAre(LateBuckets)

\* the window of 'Late Pays' held '2 Rev Lates in 4-6 mo' and '40 RE Lates in
\* 2-4 yrs' and the record has 2 and 40 in the two buckets
C12_Witness ==
  /\ pc = "returned"
  /\ \E i, j \in 2..Len(all_lines) :
       /\ line_text(all_lines[i]) = "2 Rev Lates in 4-6 mo"
       /\ line_text(all_lines[j]) = "40 RE Lates in 2-4 yrs"
  /\ LateHeading(1)
  /\ Len(all_lines) = 3
  /\ Get(rec, "late_pays") = DictV(<<Entry("last_2_years", IntV(2)),
                                     Entry("last_over_2_years", IntV(40))>>)
  /\ Get(rec, "late_pays_gt2yr") = IntV(40)

(***************************************************************************)
(* The card totals: amount lines after the heading.                        *)
(***************************************************************************)
\* most amount lines after the card-totals heading
MaxAmounts == 4

\* a balance, a limit with its percentage, a payment, and an amount line
\* without a number
CardLines ==
  {<<Span("$20,483", NoneV)>>,
   <<Span("$17,650 116%", NoneV)>>,
   <<Span("$549", NoneV)>>,
   <<Span("$ n/a", NoneV)>>}

\* the heading followed by amount lines, and the heading followed by two
\* column titles and amount lines down to the sixth line after it
InitCard ==
  Extract(Sections(<< <<Span("Credit Card Open Totals", NoneV)>> >>, CardLines, MaxAmounts)
          \cup Sections(<< <<Span("Credit Card Open Totals", NoneV)>>,
                           <<Span("Balance", NoneV)>>, <<Span("Limit", NoneV)>>,
                           <<Span("$20,483", NoneV)>>, <<Span("$17,650 116%", NoneV)>> >>,
                        CardLines, MaxAmounts - 2))

SpecCard == InitCard /\ [][Next]_vars

\* the position of the card-totals heading in the document, 0 without one
CardHeading ==
  MinPos({i \in 1..Len(all_lines) :
            Contains(Lower(first_text(all_lines[i])), "credit card open totals")})

\* the '$' amount lines among the 5 lines after the heading, in order
CardAmounts ==
  LET Amount(t) == StartsWith(t, "$") \/ HasDollarDigit(t)
      Texts(win) == [i \in 1..Len(win) |-> Strip(first_text(win[i]))]
  IN SelectSeq(Texts(SubSeq(all_lines, CardHeading + 1, Min(Len(all_lines), CardHeading + 5))),
               Amount)

\* the fields the amounts A give by position, as a set of <<key, value>>
CardFields(A) ==
  {<<"balance", inum(A[j])>> : j \in {1} \cap DOMAIN A}
  \cup {<<"limit", inum(A[j])>> : j \in {2} \cap DOMAIN A}
  \cup {<<"Percent", IntV(percent_match(A[j])[1])>> :
          j \in {x \in {2} \cap DOMAIN A : percent_match(A[x]) # <<>>}}
  \cup {<<"Payment", inum(A[j])>> : j \in {3} \cap DOMAIN A}

\* C13: credit_card_open_totals holds the '$' amount lines of the 5 lines
\* after the heading by position, 1st balance, 2nd limit (and Percent when it
\* has 'N%'), 3rd Payment, further amounts ignored; with the heading found
\* and no numeric value parsed the field is null, never an empty structure;
\* without the heading the field is absent.
C13_CardTotalsByPosition ==
  Returned =>
    LET Dict(v, F) ==
          /\ IsDict(v)
          /\ {<<v.dict[i].k, v.dict[i].v>> : i \in 1..Len(v.dict)} = F
          /\ Len(v.dict) = Cardinality(F)
        Value(v, F) == IF \A f \in F : IsNone(f[2]) THEN IsNone(v) ELSE Dict(v, F)
    IN IF CardHeading = 0 THEN ~Has(rec, "credit_card_open_totals")
       ELSE /\ Has(rec, "credit_card_open_totals")
            /\ Value(Get(rec, "credit_card_open_totals"), CardFields(CardAmounts))

\* '$20,483', '$17,650 116%', '$549' and a fourth amount followed the heading
\* and the record has {balance: 20483, limit: 17650, Percent: 116, Payment: 549}
C13_Witness ==
  /\ pc = "returned"
  /\ Len(CardAmounts) >= 4
  /\ SubSeq(CardAmounts, 1, 3) = <<"$20,483", "$17,650 116%", "$549">>
  /\ LET v == Get(rec, "credit_card_open_totals")
     IN /\ IsDict(v)
        /\ {<<v.dict[i].k, v.dict[i].v>> : i \in 1..Len(v.dict)} =
             {<<"balance", IntV(20483)>>, <<"limit", IntV(17650)>>,
              <<"Percent", IntV(116)>>, <<"Payment", IntV(549)>>}

\* the heading was found, an amount line without a number followed it, and the
\* field is null
C13_WitnessNull ==
  /\ pc = "returned"
  /\ CardHeading # 0
  /\ CardAmounts # <<>>
  /\ Has(rec, "credit_card_open_totals")
  /\ IsNone(Get(rec, "credit_card_open_totals"))

\* an amount stood on the sixth line after the heading and the record has
\* only the amounts of the five lines before it
C13_WitnessWindow ==
  /\ pc = "returned"
  /\ CardHeading = 1
  /\ Len(all_lines) = 7
  /\ first_text(all_lines[7]) = "$549"
  /\ first_text(all_lines[6]) = "$ n/a"
  /\ LET v == Get(rec, "credit_card_open_totals")
     IN /\ IsDict(v)
        /\ {<<v.dict[i].k, v.dict[i].v>> : i \in 1..Len(v.dict)} =
             {<<"balance", IntV(20483)>>, <<"limit", IntV(17650)>>,
              <<"Percent", IntV(116)>>, <<"Payment", NoneV>>}

(***************************************************************************)
(* The credit factors: the lines after the 'Credit Factors' header.        *)
(***************************************************************************)
\* factors with a span color, with a color word and without a color, a '#'
\* marker, a section header, a table header and a blank line
FactorLines ==
  {<<Span("Paid off 2 loans", IntV(43520))>>,
   <<Span("Late payment amber", NoneV)>>,
   <<Span("Too many accounts with balances past due", NoneV)>>,
   <<Span("#", NoneV)>>,
   <<Span("Public Records", NoneV)>>,
   <<Span("Open Accounts", NoneV)>>,
   <<Span(" ", NoneV)>>}

InitFactors == Extract(Sections(<< <<Span("Credit Factors", NoneV)>> >>, FactorLines, MaxWindow))

SpecFactors == InitFactors /\ [][Next]_vars

\* the position of the first 'credit factors' header, 0 without one
FactorHeader ==
  MinPos({i \in 1..Len(all_lines) : Contains(Lower(line_text(all_lines[i])), "credit factors")})

\* the line at i ends a factor section: a blank line, a section-header
\* phrase, or exactly a table-header phrase
Terminator(i) ==
  LET Ends(txt, low) ==
        txt = "" \/ (\E w \in FactorStops : Contains(low, w)) \/ low \in table_headers
      Text(txt) == Ends(txt, Lower(txt))
  IN Text(line_text(all_lines[i]))

\* the positions of the lines that are factor candidates: after the header,
\* before the first terminator after it, and not a '#' marker
FactorPositions ==
  {i \in (FactorHeader + 1)..Len(all_lines) :
     /\ FactorHeader # 0
     /\ \A j \in (FactorHeader + 1)..i : ~Terminator(j)
     /\ line_text(all_lines[i]) # "#"}

\* the list under credit_factors
FactorList == Get(rec, "credit_factors").list

C14_WitnessStop ==
  /\ pc = "returned"
  /\ FactorHeader = 1
  /\ Len(all_lines) = 4
  /\ line_text(all_lines[2]) = "Paid off 2 loans"
  /\ line_text(all_lines[3]) = "Public Records"
  /\ line_text(all_lines[4]) = "Late payment amber"
  /\ Len(FactorList) = 1

(***************************************************************************)
(* The helper functions of pdf_color_extraction.py called on their own:    *)
(* `given` is drawn from a set of arguments and one action applies the     *)
(* function, leaving what it returned in `result`.                         *)
(***************************************************************************)
\* a call with an argument of A is about to be made
Apply(A) ==
  /\ doc_or_path = [kind |-> "none", path |-> ""]
  /\ pdf = <<>>
  /\ fault = NoFault
  /\ page_limit = DefaultPageLimit
  /\ include_spans = FALSE
  /\ include_candidate_scores = FALSE
  /\ pi = 0
  /\ all_lines = <<>>
  /\ rec = <<>>
  /\ canon = <<>>
  /\ canon2 = <<>>
  /\ pc = "call"
  /\ given \in A
  /\ result = NoneV

\* the call returns r
Return(r) ==
  /\ pc = "call"
  /\ result' = r
  /\ pc' = "done"
  /\ UNCHANGED <<inputs, pi, all_lines, rec, canon, canon2, given>>

\* component values of a color: every eighth value, and the values around
\* the thresholds of map_color_to_cat and 40 above them
ColorLevels ==
  {8 * k : k \in 0..31}
  \cup {39, 41, 79, 81, 99, 100, 101, 119, 121, 139, 140, 141, 142, 159, 161, 255}

MapColor == Return(map_color_to_cat(given))

InitColor == Apply(ColorLevels \X ColorLevels \X ColorLevels)

SpecColor == InitColor /\ [][MapColor]_vars

\* the three conditions of map_color_to_cat on a triple
IsRed(r, g, b) == r > g + 40 /\ r > b + 40 /\ r > 100 /\ g < 120

IsGreen(r, g, b) == g > r + 40 /\ g > b + 40 /\ g > 100

IsBlack(r, g, b) == r < 80 /\ g < 80 /\ b < 80

\* C15: map_color_to_cat returns 'red' iff r>g+40, r>b+40, r>100 and g<120,
\* else 'green' iff g>r+40, g>b+40 and g>100, else 'black' iff all three are
\* below 80, else 'neutral'; the three conditions are pairwise exclusive, so
\* the category does not depend on the order of the tests.
C15_ColorCategories ==
  pc = "done" =>
    LET Cat(red, green, black) ==
          /\ (result = "red") <=> red
          /\ (result = "green") <=> green
          /\ (result = "black") <=> black
          /\ (result = "neutral") <=> ~(red \/ green \/ black)
          /\ ~(red /\ green) /\ ~(red /\ black) /\ ~(green /\ black)
    IN Cat(IsRed(given[1], given[2], given[3]), IsGreen(given[1], given[2], given[3]),
           IsBlack(given[1], given[2], given[3]))

\* an amber-like triple, red dominant with a green of 120 or more, was
\* classified as 'neutral'
C15_Witness ==
  /\ pc = "done"
  /\ given[1] > given[2] + 40 /\ given[1] > given[3] + 40
  /\ given[1] > 100 /\ given[2] >= 120
  /\ result = "neutral"

\* component values for the hex round trip: each digit in each place
HexLevels == {0, 9, 10, 15, 16, 171, 255}

\* the packed color of an RGB triple, as a span of the document carries it
Packed(x) == 65536 * x[1] + 256 * x[2] + x[3]

\* the adapter formats a triple (lines 239-242): the hex string, what
\* hex_to_rgb makes of it, and the span adapted from the packed color
FormatAndParse ==
  Return([hex |-> format_hex(given),
          rgb |-> hex_to_rgb(format_hex(given)),
          span |-> AdaptSpan(Span("$1", IntV(Packed(given))))])

\* triples with one component over all of 0..255
InitHex ==
  Apply(((0..255) \X HexLevels \X HexLevels)
        \cup (HexLevels \X (0..255) \X HexLevels)
        \cup (HexLevels \X HexLevels \X (0..255)))

SpecHex == InitHex /\ [][FormatAndParse]_vars

\* C16: for every RGB triple x with components in 0..255, formatting x as
\* '#rrggbb' and parsing the string with hex_to_rgb gives x back; a span
\* adapted from the packed color has rgb = x and a hex with hex_to_rgb(hex) = rgb.
C16_HexRoundTrip ==
  pc = "done" =>
    /\ Len(result.hex) = 7
    /\ result.rgb = given
    /\ result.span.rgb = given
    /\ result.span.hex # ""
    /\ hex_to_rgb(result.span.hex) = result.span.rgb

\* the triple (171, 9, 255) was formatted as '#ab09ff' and parsed back
C16_Witness ==
  /\ pc = "done"
  /\ given = <<171, 9, 255>>
  /\ result.hex = "#ab09ff"
  /\ result.rgb = <<171, 9, 255>>

\* strings handed to hex_to_rgb: a prefix, three component texts and a suffix
HexStrings ==
  {p \o a \o b \o c \o s :
     p \in {"", "#", "##", " #", "# "},
     a \in {"0a", "A9", "+f", "-1", " 7", "g0", "1"},
     b \in {"0a", "A9", "+f", "-1", " 7", "g0", "1"},
     c \in {"ff", "+f", " 7", "g0", "1"},
     s \in {"", " "}}

\* hex_to_rgb on any value: a value that is not a string gives None (line 92)
ParseHex == Return(IF IsStr(given) THEN hex_to_rgb(given.str) ELSE <<>>)

InitHexParse == Apply({StrV(h) : h \in HexStrings} \cup {NoneV, IntV(5), StrV("")})

SpecHexParse == InitHexParse /\ [][ParseHex]_vars

\* s is exactly 6 hexadecimal digits after at most one leading '#'
SixHexDigits(s) ==
  LET Body(b) == Len(b) = 6 /\ \A i \in 1..6 : IsHexDigit(Ch(b, i))
  IN Body(IF StartsWith(s, "#") THEN SubSeq(s, 2, Len(s)) ELSE s)

\* C17: hex_to_rgb returns a triple only for a string of exactly 6
\* hexadecimal digits with at most one leading '#', and None (without
\* raising) for every other value: a non-string, a wrong length, several
\* leading '#', a 6-character body with a sign or a space.
C17_OnlySixHexDigits ==
  pc = "done" => ((result # <<>>) <=> (IsStr(given) /\ SixHexDigits(given.str)))

(***************************************************************************)
(* The whole extraction as a function of include_spans, to compare the     *)
(* records of two calls on the same document.                              *)
(***************************************************************************)
\* the record after lines 193-210 when the call did not raise
AfterOpen ==
  IF doc_or_path.kind = "path" /\ doc_or_path.path # ""
  THEN <<Entry("pdf_file", StrV(doc_or_path.path)),
         Entry("source", StrV(doc_or_path.path)),
         Entry("filename", StrV(basename(doc_or_path.path)))>>
  ELSE <<>>

\* the record after lines 252-254
AfterPlaceholders(r, lines) ==
  Put(Put(r, "all_lines_obj", ListV([i \in 1..Len(lines) |-> LineValue(lines[i])])),
      "credit_factors", ListV(extract_credit_factors_from_doc(pdf, fault, page_limit)))

\* lines 256-846 in the order of the function, from the adapted lines: the
\* adapter (lines 225-250) keeps the colors of every span and does not read
\* include_spans, so the lines are those of the state for either value
Extracted(r0, lines, spans_on) ==
  LET S14(r) == candidate_scores(r, include_candidate_scores)
      S13(r) == S14(credit_factors(r, lines))
      S12(r) == S13(credit_card_open_totals(r))
      S11(r) == S12(late_pays(r, lines, 1))
      S10(r) == S11(inquiries(r, lines, 1))
      S9(r) == S10(collections(r, lines, 1))
      S8(r) == S9(account_categories(r, lines, 1))
      S7(r) == S8(bool_indicators(r, lines, spans_on, 1))
      S6(r) == S7(monthly_payments(r, lines, spans_on))
      S5(r) == S6(credit_score(r, lines, spans_on))
      S4(r) == S5(address(r, lines))
      S3(r) == S4(age(r, lines))
      S2(r) == S3(monthly_payments_color(r, lines, spans_on))
  IN S2(credit_card_open_totals_raw(r0, lines, spans_on))

\* the record of the call on the same argument with include_spans = spans_on
RecordWith(spans_on) == Extracted(AfterPlaceholders(AfterOpen, all_lines), all_lines, spans_on)

\* a key that carries a position or a color
IsSpanKey(k) == IsMetaKey(k) \/ EndsWith(k, "_color")

\* a and b have the same keys besides position and color keys, with the same values
SameValues(a, b) ==
  /\ \A i \in 1..Len(a) : IsSpanKey(a[i].k) \/ (Has(b, a[i].k) /\ Get(b, a[i].k) = a[i].v)
  /\ \A i \in 1..Len(b) : IsSpanKey(b[i].k) \/ Has(a, b[i].k)

\* C18: for the same document, the records of extraction with
\* include_spans=False and with include_spans=True have the same value for
\* every key that does not end in _bbox, _page, _spans or _color; the
\* credit_factors list (factor, color and hex of each entry) is the same.
C18_SpansDoNotChangeValues ==
  pc = "returned" =>
    \A s \in BOOLEAN :
      LET Same(other) == /\ s = include_spans => other = rec
                         /\ SameValues(rec, other)
      IN Same(RecordWith(s))

\* a call without spans returned a green factor with its hex
C18_Witness ==
  /\ pc = "returned"
  /\ ~include_spans
  /\ \E k \in 1..Len(Get(rec, "credit_factors").list) :
       LET f == Get(rec, "credit_factors").list[k].dict
       IN /\ Get(f, "factor") = StrV("Paid off 2 loans")
          /\ Get(f, "color") = StrV("green")
          /\ Get(f, "hex") = StrV("#00aa00")

\* a call without spans returned a score, and the call with spans has its color too
C18_WitnessScore ==
  /\ pc = "returned"
  /\ ~include_spans
  /\ Get(rec, "credit_score") = IntV(700)
  /\ ~Has(rec, "credit_score_color")
  /\ Has(RecordWith(TRUE), "credit_score_color")

\* factor texts for compute_candidate_score: 39 and 40 characters, with and
\* without a digit and 'paid', and 'Paid' in capitals
ScoreTexts ==
  {"", "Paid Off 200k+ RE/RE", "Some Factor", "paid", "7",
   "Too many accounts with balances past du",
   "Too many accounts with balances past due",
   "Too many accounts with 2 balances unpaid"}

\* candidates: the factor missing, None or a text; hex and color missing,
\* None, empty or set
Candidates ==
  {f \o h \o c :
     f \in {<<>>, <<Entry("factor", NoneV)>>}
           \cup {<<Entry("factor", StrV(t))>> : t \in ScoreTexts},
     h \in {<<>>, <<Entry("hex", NoneV)>>, <<Entry("hex", StrV(""))>>,
            <<Entry("hex", StrV("#ff0000"))>>},
     c \in {<<>>, <<Entry("color", NoneV)>>, <<Entry("color", StrV("red"))>>}}

\* compute_candidate_score called on its own
ScoreCandidate == Return(IntV(compute_candidate_score(given)))

\* the calls of extract_pdf_all_fields over the factor lines, and the calls
\* of compute_candidate_score over the candidates
InitScore == InitFactors \/ Apply(Candidates)

NextScore == Next \/ ScoreCandidate

SpecScore == InitScore /\ [][NextScore]_vars

\* the weighted sum of the four tests on a candidate; the text is the
\* factor in lower case, '' when it is missing or None
WeightedSum(cand) ==
  LET Sum(text) ==
        (IF Len(text) < 40 THEN 2 ELSE 0)
        + (IF \E i \in 1..Len(text) : Ch(text, i) \in DigitSet THEN 1 ELSE 0)
        + (IF \E i \in 1..(Len(text) - 3) : SubSeq(text, i, i + 3) = "paid" THEN 1 ELSE 0)
        + (IF \E k \in {"hex", "color"} : IsStr(Get(cand, k)) /\ Get(cand, k).str # ""
           THEN 3 ELSE 0)
  IN Sum(IF IsStr(Get(cand, "factor")) THEN Lower(Get(cand, "factor").str) ELSE "")

\* C19: compute_candidate_score is the sum of +2 for a factor text shorter
\* than 40 characters, +1 for a digit, +1 for 'paid' and +3 for a hex or a
\* color, and lies in 0..7; with include_candidate_scores the record has one
\* {factor, score} entry per entry of the final credit_factors list, in the
\* same order; without it the key candidate_scores is absent.
C19_CandidateScores ==
  /\ pc = "done" => result = IntV(WeightedSum(given)) /\ result.int \in 0..7
  /\ pc = "returned" =>
       IF include_candidate_scores
       THEN LET Scored(cfs) ==
                  Get(rec, "candidate_scores") =
                    ListV([k \in 1..Len(cfs) |->
                             DictV(<<Entry("factor", Get(cfs[k].dict, "factor")),
                                     Entry("score", IntV(WeightedSum(cfs[k].dict)))>>)])
            IN Has(rec, "credit_factors") /\ Scored(Get(rec, "credit_factors").list)
       ELSE ~Has(rec, "candidate_scores")

\* a call returned the scores 7, 5 and 0 for a green factor with 'paid' and
\* a digit, a factor with a color word, and a long factor without color
C19_Witness ==
  /\ pc = "returned"
  /\ include_candidate_scores
  /\ Get(rec, "candidate_scores") =
       ListV(<<DictV(<<Entry("factor", StrV("Paid off 2 loans")), Entry("score", IntV(7))>>),
               DictV(<<Entry("factor", StrV("Late payment")), Entry("score", IntV(5))>>),
               DictV(<<Entry("factor", StrV("Too many accounts with balances past due")),
                       Entry("score", IntV(0))>>)>>)

\* compute_candidate_score gave 4 to 'Paid Off 200k+ RE/RE' without color
C19_WitnessUnit ==
  /\ pc = "done"
  /\ Get(given, "factor") = StrV("Paid Off 200k+ RE/RE")
  /\ Get(given, "hex") = NoneV
  /\ result = IntV(4)

(***************************************************************************)
(* sort_factors_by_bbox (lines 877-885).                                   *)
(***************************************************************************)
\* most entries in a list handed to sort_factors_by_bbox
MaxFactors == 3

\* the key with missing values first
keyfn_MissingFirst(x) ==
  LET Y(bbox) == IF Len(bbox) > 1 THEN bbox[2].int ELSE 0
  IN <<IF Has(x, "page") THEN Get(x, "page").int ELSE 0,
       IF Truthy(Get(x, "bbox")) THEN Y(Get(x, "bbox").list) ELSE 0>>

\* keyfn (lines 878-882): (page, bbox[1]), 9999 for a missing page, for a
\* missing, None or empty bbox, and for a bbox of one number
keyfn(x) ==
  LET Y(bbox) == IF Len(bbox) > 1 THEN bbox[2].int ELSE 9999
  IN <<IF Has(x, "page") THEN Get(x, "page").int ELSE 9999,
       IF Truthy(Get(x, "bbox")) THEN Y(Get(x, "bbox").list) ELSE 9999>>

\* the order of Python on tuples of two numbers
TupleLess(a, b) == a[1] < b[1] \/ (a[1] = b[1] /\ a[2] < b[2])

\* x put into a sorted list behind the entries that do not sort after it
InsertLast(s, x) ==
  LET n == Cardinality({i \in 1..Len(s) : ~TupleLess(keyfn(x), keyfn(s[i]))})
  IN SubSeq(s, 1, n) \o <<x>> \o SubSeq(s, n + 1, Len(s))

RECURSIVE sorted_by_keyfn(_)
\* sorted(cfs, key=keyfn) (line 885): a new list, stable
sorted_by_keyfn(cfs) ==
  IF cfs = <<>> THEN <<>>
  ELSE InsertLast(sorted_by_keyfn(SubSeq(cfs, 1, Len(cfs) - 1)), cfs[Len(cfs)])

\* sort_factors_by_bbox: what it returns, and its argument after the call
sort_factors_by_bbox(cfs) == [returned |-> sorted_by_keyfn(cfs), cfs |-> cfs]

Bbox(x0, y0, x1, y1) == Entry("bbox", ListV(<<IntV(x0), IntV(y0), IntV(x1), IntV(y1)>>))

\* factor entries: the four of tests/test_credit_factor_sorting.py, an
\* entry with the key of B, and entries with a page and no bbox, a bbox and
\* no page, an empty bbox, a bbox of one number and a bbox of None
FactorEntries ==
  {<<Entry("factor", StrV("A")), Entry("page", IntV(0)), Bbox(0, 10, 1, 11)>>,
   <<Entry("factor", StrV("B")), Entry("page", IntV(0)), Bbox(0, 5, 1, 6)>>,
   <<Entry("factor", StrV("B2")), Entry("page", IntV(0)), Bbox(3, 5, 4, 6)>>,
   <<Entry("factor", StrV("C")), Entry("page", IntV(1)), Bbox(0, 2, 1, 3)>>,
   <<Entry("factor", StrV("D"))>>,
   <<Entry("factor", StrV("E")), Entry("page", IntV(1))>>,
   <<Entry("factor", StrV("F")), Bbox(0, 7, 1, 8)>>,
   <<Entry("factor", StrV("G")), Entry("page", IntV(0)), Entry("bbox", ListV(<<>>))>>,
   <<Entry("factor", StrV("H")), Entry("page", IntV(0)), Entry("bbox", ListV(<<IntV(5)>>))>>,
   <<Entry("factor", StrV("I")), Entry("page", IntV(1)), Entry("bbox", NoneV)>>}

SortFactors == Return(sort_factors_by_bbox(given))

InitSort == Apply(SeqsUpTo(FactorEntries, MaxFactors))

SpecSort == InitSort /\ [][SortFactors]_vars

\* the page of an entry, 9999 without one
PageOf(x) == IF Has(x, "page") THEN Get(x, "page").int ELSE 9999

\* the top y of the bbox of an entry, 9999 without one
TopOf(x) ==
  IF IsList(Get(x, "bbox")) /\ Len(Get(x, "bbox").list) >= 2
  THEN Get(x, "bbox").list[2].int ELSE 9999

\* x does not come after y in the order by (page, top y)
NotAfter(x, y) == PageOf(x) < PageOf(y) \/ (PageOf(x) = PageOf(y) /\ TopOf(x) <= TopOf(y))

\* C20: sort_factors_by_bbox returns a permutation of its input in
\* ascending order of (page, top y of bbox), an entry without page taken as
\* page 9999 and one without bbox as y 9999; entries with equal (page, y)
\* keep their input order; the input list is not modified.
C20_SortedStablePermutation ==
  pc = "done" =>
    LET n == Len(given)
        Sorted(out) ==
          /\ Len(out) = n
          /\ \E p \in [1..n -> 1..n] :
               /\ \A i, j \in 1..n : i # j => p[i] # p[j]
               /\ \A i \in 1..n : out[i] = given[p[i]]
               /\ \A i, j \in 1..n :
                    i < j => /\ NotAfter(out[i], out[j])
                             /\ NotAfter(out[j], out[i]) => p[i] < p[j]
    IN Sorted(result.returned) /\ result.cfs = given

\* an entry without position between two entries of equal key:
\* [B2, D, B] came back as [B2, B, D]
C20_Witness ==
  /\ pc = "done"
  /\ Len(given) = 3
  /\ Get(given[1], "factor") = StrV("B2")
  /\ Get(given[2], "factor") = StrV("D")
  /\ Get(given[3], "factor") = StrV("B")
  /\ result.returned = <<given[1], given[3], given[2]>>

(***************************************************************************)
(* The tables of a report under their headings: one-page documents with a  *)
(* heading line followed by up to MaxWindow lines of the catalogue of its  *)
(* kind, and documents with the lines of the first-match fields.           *)
(***************************************************************************)
\* a category with its pair, the label alone, the category without accounts,
\* a pair alone, and a category whose amount is a monthly one
CategoryLines ==
  {<<Span("Real Estate 2 / $300", NoneV)>>,
   <<Span("Real Estate", NoneV)>>,
   <<Span("No Real Estate Accounts", NoneV)>>,
   <<Span("5 / $70", NoneV)>>,
   <<Span("Revolving Accounts 3 / $500/mo", NoneV)>>}

\* the heading again, an 'n / m' pair, a number alone and a line without a
\* number
CollectionLines ==
  {<<Span("Collections (Open/Closed)", NoneV)>>,
   <<Span("1 / 2", NoneV)>>,
   <<Span("7", NoneV)>>,
   <<Span("n/a", NoneV)>>}

\* counts with a month window, with a window the heading words would put
\* outside the last 6 months, without a window, a count on a line that is a
\* heading itself, and a heading that names the last 6 months
InquiryLines ==
  {<<Span("2 Inq 0-6 mo", NoneV)>>,
   <<Span("1 INQ 6-12 yrs", NoneV)>>,
   <<Span("3 inq", NoneV)>>,
   <<Span("4 Inquiries", NoneV)>>,
   <<Span("Inquiries in the last 6 months", NoneV)>>}

\* two ages, two payments and two scores around the score label
FirstMatchLines ==
  {<<Span("Age: 49", NoneV)>>,
   <<Span("age 50, $12 / mo", NoneV)>>,
   <<Span("$549/mo", NoneV)>>,
   <<Span("Credit Score", NoneV)>>,
   <<Span("700", NoneV)>>,
   <<Span("650", NoneV)>>}

\* the one-page document of a heading, n lines that match nothing, and a line
\* of the heading's table
Padded(head, n, tail) ==
  OnePage(<< <<Span(head, NoneV)>> >> \o [j \in 1..n |-> <<Span("-", NoneV)>>]
          \o << <<Span(tail, NoneV)>> >>)

\* documents whose table line is the last line inside the window scanned
\* after the heading, and the first line outside it: 7 lines for a category
\* (all_lines[i + 1 : i + 8]), 5 for collections (all_lines[i + 1 : i + 6]),
\* 19 for inquiries and late pays (all_lines[i + 1 : i + 20])
WindowDocuments ==
  {Padded("Real Estate", n, "5 / $70") : n \in {6, 7}}
  \cup {Padded("Collections", n, "1 / 2") : n \in {4, 5}}
  \cup {Padded("Inquiries", n, "3 inq") : n \in {18, 19}}
  \cup {Padded("Late Pays", n, "2 Rev Lates in 4-6 mo") : n \in {18, 19}}

InitHeadings ==
  Extract(Sections(<< <<Span("Real Estate", NoneV)>> >>, CategoryLines, MaxWindow)
          \cup Sections(<< <<Span("Collections", NoneV)>> >>, CollectionLines, MaxWindow)
          \cup Sections(<< <<Span("Inquiries", NoneV)>> >>, InquiryLines, MaxWindow)
          \cup Sections(<< <<Span("Late Pays", NoneV)>> >>, LateLines, MaxWindow)
          \cup Sections(<<>>, FirstMatchLines, MaxWindow)
          \cup WindowDocuments)

SpecHeadings == InitHeadings /\ [][Next]_vars

\* the text of the line at position i
TextAt(i) == line_text(all_lines[i])

\* the texts of the lines of the document
Texts == [i \in 1..Len(all_lines) |-> line_text(all_lines[i])]

\* when r has both the nested key and the flat key, the field of the nested
\* dict is the value of the flat key
NestedAgrees(r, nested, field, flat) ==
  (Has(r, nested) /\ Has(r, flat)) =>
    /\ IsDict(Get(r, nested))
    /\ Has(Get(r, nested).dict, field)
    /\ Get(Get(r, nested).dict, field) = Get(r, flat)

\* C21: at every point of extract_pdf_all_fields, and in the record it
\* returns, a nested form and its flat keys that are both present agree:
\* late_pays.last_over_2_years = late_pays_gt2yr, collections.open =
\* collections_open, collections.closed = collections_closed, and the
\* count/amount of each category = its flat _count/_total, also when several
\* headings of the same kind have each rewritten the field.
C21_NestedAgreesWithFlat ==
  /\ NestedAgrees(rec, "late_pays", "last_over_2_years", "late_pays_gt2yr")
  /\ NestedAgrees(rec, "collections", "open", "collections_open")
  /\ NestedAgrees(rec, "collections", "closed", "collections_closed")
  /\ \A k \in 1..Len(category_map) :
       /\ NestedAgrees(rec, category_map[k][2], "count", AccountMapping[category_map[k][2]][1])
       /\ NestedAgrees(rec, category_map[k][2], "amount", AccountMapping[category_map[k][2]][2])

\* 'Late Pays' gave the buckets 2 and 43, the 'Lates +2yr' line after it is a
\* heading that rewrote them to 0 and 40, and both forms hold the 40
C21_Witness ==
  /\ pc = "returned"
  /\ Texts = <<"Late Pays", "2 Rev Lates in 4-6 mo", "Lates +2yr: 3/5", "40 RE Lates in 2-4 yrs">>
  /\ Get(late_pays_line(<<>>, all_lines, 1), "late_pays_gt2yr") = IntV(43)
  /\ Get(rec, "late_pays") = DictV(<<Entry("last_2_years", IntV(0)),
                                     Entry("last_over_2_years", IntV(40))>>)
  /\ Get(rec, "late_pays_gt2yr") = IntV(40)

\* the label with '5 / $70' under it gave 5 and 70, the category line after
\* them rewrote both forms to 2 and 300
C21_WitnessCategory ==
  /\ pc = "returned"
  /\ Texts = <<"Real Estate", "5 / $70", "Real Estate 2 / $300">>
  /\ Get(account_line(<<>>, all_lines, 1), "real_estate_open_count") = IntV(5)
  /\ Get(rec, "real_estate_open") = DictV(<<Entry("count", IntV(2)), Entry("amount", IntV(300))>>)
  /\ Get(rec, "real_estate_open_count") = IntV(2)
  /\ Get(rec, "real_estate_open_total") = IntV(300)

\* 'Collections' with '1 / 2' under it gave 1 and 2, the heading after them
\* with '7' under it rewrote both forms to 7 and null
C21_WitnessCollections ==
  /\ pc = "returned"
  /\ Texts = <<"Collections", "1 / 2", "Collections (Open/Closed)", "7">>
  /\ Get(rec, "collections") = DictV(<<Entry("open", IntV(7)), Entry("closed", NoneV)>>)
  /\ Get(rec, "collections_open") = IntV(7)
  /\ Get(rec, "collections_closed") = NoneV

(***************************************************************************)
(* The sections of extract_pdf_all_fields between line 256 and line 846    *)
(* run in an order other than the one of the code.  The record is kept     *)
(* with its keys in one fixed order, as two Python dicts with the same     *)
(* keys and values are equal whatever the order of their insertion.        *)
(***************************************************************************)
\* the sections in the order of the code
Locators ==
  <<"card_totals", "monthly_color", "age", "address", "credit_score", "monthly_payments",
    "indicators", "accounts", "collections", "inquiries", "late_pays", "card_parse",
    "factors", "scores">>

\* the record section l makes of r
RunSection(l, r, lines, spans_on, scores_on) ==
  CASE l = "card_totals" -> credit_card_open_totals_raw(r, lines, spans_on)
    [] l = "monthly_color" -> monthly_payments_color(r, lines, spans_on)
    [] l = "age" -> age(r, lines)
    [] l = "address" -> address(r, lines)
    [] l = "credit_score" -> credit_score(r, lines, spans_on)
    [] l = "monthly_payments" -> monthly_payments(r, lines, spans_on)
    [] l = "indicators" -> bool_indicators(r, lines, spans_on, 1)
    [] l = "accounts" -> account_categories(r, lines, 1)
    [] l = "collections" -> collections(r, lines, 1)
    [] l = "inquiries" -> inquiries(r, lines, 1)
    [] l = "late_pays" -> late_pays(r, lines, 1)
    [] l = "card_parse" -> credit_card_open_totals(r)
    [] l = "factors" -> credit_factors(r, lines)
    [] l = "scores" -> candidate_scores(r, scores_on)

RECURSIVE KeyOrder(_)
\* the keys of S in one fixed order
KeyOrder(S) ==
  IF S = {} THEN <<>>
  ELSE LET k == CHOOSE x \in S : TRUE IN <<k>> \o KeyOrder(S \ {k})

\* the dict r with its keys in the fixed order
ByKey(r) == LET ks == KeyOrder(KeySet(r)) IN [i \in 1..Len(ks) |-> Entry(ks[i], Get(r, ks[i]))]

\* section l may run when the sections `todo` have not: the structured card
\* totals are made of the collected amounts, and the factors are scored
\* after they were found
Ready(l, todo) ==
  /\ l = "card_parse" => "card_totals" \notin todo
  /\ l = "scores" => "factors" \notin todo

\* one of the sections that have not run yet runs
Locate ==
  /\ pc = "locating"
  /\ \E l \in given :
       /\ Ready(l, given)
       /\ rec' = ByKey(RunSection(l, rec, all_lines, include_spans, include_candidate_scores))
       /\ given' = given \ {l}
       /\ pc' = IF given = {l} THEN "located" ELSE "locating"
  /\ UNCHANGED <<inputs, pi, all_lines, canon, canon2, result>>

\* a report with card totals and a payment line under a line that names the
\* period, and one with a factor and a table
OrderDocuments ==
  {OnePage(<< <<Span("Credit Card Open Totals", NoneV)>>,
              <<Span("Payments /mo", IntV(13369344))>>, <<Span("$549/mo", IntV(43520))>> >>),
   OnePage(<< <<Span("Credit Factors", NoneV)>>, <<Span("Paid off 2 loans", IntV(43520))>>,
              <<Span("Real Estate 2 / $300", NoneV)>> >>)}

\* the adapter and the placeholders (lines 225-254) have run on a document
InitOrder ==
  /\ doc_or_path = [kind |-> "doc", path |-> ""]
  /\ pdf \in OrderDocuments
  /\ fault = NoFault
  /\ page_limit = DefaultPageLimit
  /\ include_spans \in BOOLEAN
  /\ include_candidate_scores = TRUE
  /\ pi = Len(pdf)
  /\ all_lines = AdaptPage(pdf[1], 0)
  /\ rec = ByKey(AfterPlaceholders(<<>>, all_lines))
  /\ canon = <<>>
  /\ canon2 = <<>>
  /\ pc = "locating"
  /\ given = {Locators[i] : i \in 1..Len(Locators)}
  /\ result = NoneV

SpecOrder == InitOrder /\ [][Locate]_vars

\* C22: whatever the order in which the field locators have run over the
\* line sequence (the structured card totals after the collected amounts,
\* candidate scoring after the credit factors), the record has the keys and
\* values of the record that the order of the code gives.
C22_AnyOrderSameRecord ==
  pc = "located" => rec = ByKey(RecordWith(include_spans))

\* the line at position i is handled as a line of category k: the label of k
\* is the first label of category_map found on it
CategoryLine(i, k) ==
  k = MinPos({m \in 1..Len(category_map) : Contains(Lower(TextAt(i)), category_map[m][1])})

\* re.search(r"\bmo\b|/mo|per month", s, re.IGNORECASE): monthly phrasing
MonthlyPhrase(s) ==
  HasWord(Lower(s), "mo") \/ Contains(Lower(s), "/mo") \/ Contains(Lower(s), "per month")

\* category k has neither its nested key nor a flat key in r
CategoryAbsent(r, k) ==
  /\ ~Has(r, category_map[k][2])
  /\ ~Has(r, AccountMapping[category_map[k][2]][1])
  /\ ~Has(r, AccountMapping[category_map[k][2]][2])

\* C23: a category line with monthly phrasing ('mo', '/mo', 'per month')
\* gives no count/amount pair: when every line of a category has such
\* phrasing, and neither it nor one of the 7 lines after it says 'no ..
\* accounts' or (for the lines after it) holds a pair, the category is not
\* set, also when the line holds 'digits / $digits' as in '3 / $500/mo'.
C23_NoPairFromMonthlyLine ==
  Returned =>
    \A k \in 1..Len(category_map) :
      (\A i \in 1..Len(all_lines) :
         CategoryLine(i, k) =>
           /\ MonthlyPhrase(TextAt(i))
           /\ ~no_accounts(Lower(TextAt(i)))
           /\ pair_in_next(Slice(all_lines, i, i + 7)) = <<NoneV, NoneV>>)
      => \/ \A i \in 1..Len(all_lines) : ~CategoryLine(i, k)
         \/ CategoryAbsent(rec, k)

\* the buckets <<l2, lgt2>> of the loop of lines 727-745 after the first k
\* lines of the window of the heading at position i
BucketsAfter(i, k) == late_window(SubSeq(Slice(all_lines, i, i + 19), 1, k), <<0, 0>>)

\* the k-th line of the window of the heading at i does not match the
\* preferred pattern and reads 'lates +2yr: N'
FallbackLine(i, k) ==
  LET Is(nt) == late_match(nt) = <<>> /\ lates2yr_match(nt) # <<>>
  IN Is(line_text(Slice(all_lines, i, i + 19)[k]))

\* C24: in the scan of a late-pay window in line order, a line 'lates +2yr:
\* N' that does not match the preferred pattern makes the beyond-2-years
\* bucket N when the bucket is 0 as the line is reached and leaves it as it
\* is otherwise, whatever the within-2-years bucket holds, and never changes
\* the within-2-years bucket.
C24_FallbackOnlyWhileZero ==
  Returned =>
    \A i \in 1..Len(all_lines) :
      LateHeading(i) =>
        \A k \in 1..Len(Slice(all_lines, i, i + 19)) :
          FallbackLine(i, k) =>
            LET Step(before, after, n) ==
                  /\ after[1] = before[1]
                  /\ after[2] = IF before[2] = 0 THEN n ELSE before[2]
            IN Step(BucketsAfter(i, k - 1), BucketsAfter(i, k),
                    lates2yr_match(line_text(Slice(all_lines, i, i + 19)[k]))[1])

\* 'Lates +2yr: 3/5' was reached with 2 in the within-2-years bucket and 0 in
\* the other, and the record has 2 and 3
C24_Witness ==
  /\ pc = "returned"
  /\ [i \in 1..Len(all_lines) |-> line_text(all_lines[i])]
       = <<"Late Pays", "2 Rev Lates in 4-6 mo", "Lates +2yr: 3/5">>
  /\ FallbackLine(1, 2)
  /\ BucketsAfter(1, 1) = <<2, 0>>
  /\ Get(rec, "late_pays") = DictV(<<Entry("last_2_years", IntV(2)),
                                     Entry("last_over_2_years", IntV(3))>>)

\* 'Lates +2yr: 3/5' was reached with 40 in the beyond-2-years bucket, and the
\* record has 40
C24_WitnessDiscarded ==
  /\ pc = "returned"
  /\ [i \in 1..Len(all_lines) |-> line_text(all_lines[i])]
       = <<"Late Pays", "40 RE Lates in 2-4 yrs", "Lates +2yr: 3/5">>
  /\ FallbackLine(1, 2)
  /\ BucketsAfter(1, 1) = <<0, 40>>
  /\ Get(rec, "late_pays_gt2yr") = IntV(40)

\* re.search(r"last\s*6\s*months", s, re.IGNORECASE)
Last6Months(s) ==
  \E k \in 1..Len(s) :
    /\ At(Lower(s), k, "last")
    /\ At(s, SkipSpaces(s, k + 4), "6")
    /\ At(Lower(s), SkipSpaces(s, SkipSpaces(s, k + 4) + 1), "months")

\* the counts matched by 'N inq' in the up to 19 lines after position i, in
\* line order, whatever the wording of their time window
MatchedCounts(i) ==
  LET At19(ks) == [j \in 1..Len(ks) |-> inq_match(TextAt(ks[j]))[1]]
  IN At19(SelectSeq([k \in 1..Len(all_lines) |-> k],
                    LAMBDA k : k > i /\ k <= i + 19 /\ inq_match(TextAt(k)) # <<>>))

\* the line at position i contains 'inquir' and gives a count: a count is
\* matched after it, or it names the last 6 months
InquiryHeading(i) ==
  /\ Contains(Lower(TextAt(i)), "inquir")
  /\ MatchedCounts(i) # <<>> \/ Last6Months(TextAt(i))

\* C25: inquiries_last_6_months and inquiries_6mo are written together with
\* the same value at every point; in the returned record they hold the sum
\* of every count matched by 'N inq' in the up to 19 lines after the line
\* containing 'inquir' (the last such line that gives a count), no match left
\* out for the wording of its time window, and neither key is set when no
\* line containing 'inquir' has a count after it or names the last 6 months.
C25_InquiriesSumOfAllCounts ==
  /\ Has(rec, "inquiries_last_6_months") <=> Has(rec, "inquiries_6mo")
  /\ Has(rec, "inquiries_6mo") => Get(rec, "inquiries_last_6_months") = Get(rec, "inquiries_6mo")
  /\ Returned =>
       LET Value(h) ==
             IF h = 0 THEN ~Has(rec, "inquiries_last_6_months")
             ELSE /\ Has(rec, "inquiries_last_6_months")
                  /\ Get(rec, "inquiries_last_6_months") = IntV(SumSeq(MatchedCounts(h)))
       IN Value(MaxPos({i \in 1..Len(all_lines) : InquiryHeading(i)}))

\* a count with a month window, one with a window in years and one without
\* a window stood under 'Inquiries', and both keys hold 2 + 1 + 3
C25_Witness ==
  /\ pc = "returned"
  /\ Texts = <<"Inquiries", "2 Inq 0-6 mo", "1 INQ 6-12 yrs", "3 inq">>
  /\ Get(rec, "inquiries_last_6_months") = IntV(6)
  /\ Get(rec, "inquiries_6mo") = IntV(6)

\* the heading stood alone and neither key is set
C25_WitnessAbsent ==
  /\ pc = "returned"
  /\ Texts = <<"Inquiries">>
  /\ ~Has(rec, "inquiries_last_6_months")
  /\ ~Has(rec, "inquiries_6mo")

\* a heading that names the last 6 months had no count under it and both
\* keys hold 0
C25_WitnessZero ==
  /\ pc = "returned"
  /\ Texts = <<"Inquiries", "Inquiries in the last 6 months">>
  /\ Get(rec, "inquiries_last_6_months") = IntV(0)
  /\ Get(rec, "inquiries_6mo") = IntV(0)

\* the line at position i or one of the 7 lines after it says 'no ..
\* accounts' or holds a count/amount pair
PairNear(i) ==
  \/ no_accounts(Lower(TextAt(i)))
  \/ pair_match(Lower(TextAt(i))) # ""
  \/ \E j \in (i + 1)..Min(i + 7, Len(all_lines)) :
       no_accounts(Lower(TextAt(j))) \/ pair_match(TextAt(j)) # ""

\* one of the 5 lines after position i holds an 'n / m' pair or is a number
\* alone
CountNear(i) ==
  \E j \in (i + 1)..Min(i + 5, Len(all_lines)) :
    parse_count_count_pair(TextAt(j)) # <<NoneV, NoneV>> \/ IsDigitStr(TextAt(j))

\* C26: a field whose pattern is not matched is absent from the record, at
\* every point of the extraction, and never 0: a category none of whose label
\* lines has a count/amount pair or 'no .. accounts' on it or on the 7 lines
\* after it has no nested and no flat key; collections none of whose heading
\* lines has an 'n / m' pair or an all-digit line in the 5 lines after it has
\* no collections, collections_open or collections_closed key.
C26_UnmatchedIsAbsent ==
  /\ \A k \in 1..Len(category_map) :
       \/ CategoryAbsent(rec, k)
       \/ \E i \in 1..Len(all_lines) : CategoryLine(i, k) /\ PairNear(i)
  /\ \/ /\ ~Has(rec, "collections")
        /\ ~Has(rec, "collections_open")
        /\ ~Has(rec, "collections_closed")
     \/ \E i \in 1..Len(all_lines) :
          Contains(Lower(TextAt(i)), "collections") /\ CountNear(i)

\* the label 'Real Estate' was found twice with no pair near it, and the
\* record has no key of the category
C26_Witness ==
  /\ pc = "returned"
  /\ Texts = <<"Real Estate", "Real Estate">>
  /\ CategoryLine(1, 3)
  /\ CategoryAbsent(rec, 3)

\* the collections heading had only 'n/a' under it, and the record has no
\* collections key
C26_WitnessCollections ==
  /\ pc = "returned"
  /\ Texts = <<"Collections", "n/a">>
  /\ ~Has(rec, "collections")
  /\ ~Has(rec, "collections_open")
  /\ ~Has(rec, "collections_closed")

\* the count stood on the 19th line after the heading and both keys hold it
C25_WitnessWindow ==
  /\ pc = "returned"
  /\ Len(all_lines) = 20
  /\ TextAt(1) = "Inquiries"
  /\ TextAt(20) = "3 inq"
  /\ Get(rec, "inquiries_last_6_months") = IntV(3)
  /\ Get(rec, "inquiries_6mo") = IntV(3)

\* the count stood on the 20th line after the heading and neither key is set
C25_WitnessOutside ==
  /\ pc = "returned"
  /\ Len(all_lines) = 21
  /\ TextAt(21) = "3 inq"
  /\ ~Has(rec, "inquiries_last_6_months")
  /\ ~Has(rec, "inquiries_6mo")

\* the pair stood on the 8th line after the label 'Real Estate', and the
\* record has no key of the category
C26_WitnessWindow ==
  /\ pc = "returned"
  /\ Len(all_lines) = 9
  /\ TextAt(9) = "5 / $70"
  /\ CategoryLine(1, 3)
  /\ CategoryAbsent(rec, 3)

\* the pair stood on the 6th line after the collections heading, and the
\* record has no collections key
C26_WitnessWindowCollections ==
  /\ pc = "returned"
  /\ Len(all_lines) = 7
  /\ TextAt(7) = "1 / 2"
  /\ ~Has(rec, "collections")
  /\ ~Has(rec, "collections_open")
  /\ ~Has(rec, "collections_closed")

(***************************************************************************)
(* The color of a credit factor.                                           *)
(***************************************************************************)
\* the outputs of map_color_to_cat
ColorCategories == {"red", "green", "black", "neutral"}

\* the color of a factor dict is absent, null or a Color Classifier output
CategoryColor(f) ==
  Has(f, "color") =>
    \/ IsNone(Get(f, "color"))
    \/ \E c \in ColorCategories : Get(f, "color") = StrV(c)

\* C27: every credit factor of the returned record has no color or one of
\* the Color Classifier's outputs red, green, black, neutral, whether the
\* color came from the first span or from a trailing color word of the text.
C27_FactorColorIsCategory ==
  Returned => \A k \in 1..Len(FactorList) : CategoryColor(FactorList[k].dict)

(***************************************************************************)
(* The length of the credit-factor scan.  credit_factors is applied to the *)
(* lines of a page that has `before` lines, the header 'Credit Factors',   *)
(* and n factor lines 'F1' .. 'Fn', none of them a terminator.             *)
(***************************************************************************)
\* fewest and most factor lines after the header
MinLong == 100
MaxLong == 140
\* most lines before the header
MaxBefore == 1

\* the lines of the page for given = <<before, n>>
LongLines(before, n) ==
  AdaptPage(OnePage([j \in 1..before |-> <<Span("-", NoneV)>>]
                    \o << <<Span("Credit Factors", NoneV)>> >>
                    \o [j \in 1..n |-> <<Span("F" \o IntToStr(j), NoneV)>>])[1], 0)

ScanFactors == Return(DictV(credit_factors(<<>>, LongLines(given[1], given[2]))))

InitLong == Apply((0..MaxBefore) \X (MinLong..MaxLong))

SpecLong == InitLong /\ [][ScanFactors]_vars

\* the texts of the factors of the scanned record
ScannedFactors ==
  LET Names(fs) == [k \in 1..Len(fs) |-> Get(fs[k].dict, "factor").str]
  IN Names(Get(result.dict, "credit_factors").list)

\* C28: a header followed by 120 or more lines that are neither blank, nor a
\* header, nor '#' yields exactly 120 factors, those of the lines at offsets
\* 1 to 120 after the header; with fewer lines every line is a factor.
C28_Scans120Lines ==
  pc = "done" =>
    ScannedFactors = [k \in 1..Min(given[2], 120) |-> "F" \o IntToStr(k)]

\* what the scan does: the factors of the lines at offsets 1 to 119
C28_Scans119Lines ==
  pc = "done" =>
    ScannedFactors = [k \in 1..Min(given[2], 119) |-> "F" \o IntToStr(k)]

(***************************************************************************)
(* page_limit and the credit-factor scan.                                  *)
(***************************************************************************)
\* the line at position i holds the 'credit factors' header on a page whose
\* index is below page_limit
HeaderWithinLimit(i) ==
  /\ Contains(Lower(TextAt(i)), "credit factors")
  /\ all_lines[i].page < page_limit

\* C29: the credit-factor scan is bounded by page_limit: when no page with
\* index < page_limit holds a 'credit factors' header, the returned record
\* has no scanned factor, its credit_factors being the list that
\* extract_credit_factors_from_doc left.
C29_FactorScanWithinPageLimit ==
  (Returned /\ Has(rec, "credit_factors"))
  => \/ \E i \in 1..Len(all_lines) : HeaderWithinLimit(i)
     \/ FactorList = extract_credit_factors_from_doc(pdf, fault, page_limit)

(***************************************************************************)
(* Fields rewritten by every heading, and fields that keep the first match. *)
(***************************************************************************)
\* the keys written by the scans of account categories, collections,
\* inquiries and late pays
HeadingKeys ==
  NestedAccountKeys
  \cup UNION {{AccountMapping[k][1], AccountMapping[k][2]} : k \in NestedAccountKeys}
  \cup {"collections", "collections_open", "collections_closed",
        "inquiries_last_6_months", "inquiries_6mo", "late_pays", "late_pays_gt2yr"}

\* what the line at position i writes as a heading, computed from its own
\* window alone: the entries it puts into an empty record
HeadingValue(i) ==
  account_line(<<>>, all_lines, i) \o collections_line(<<>>, all_lines, i)
  \o inquiries_line(<<>>, all_lines, i) \o late_pays_line(<<>>, all_lines, i)

\* the last line that writes key k as a heading, 0 without one
LastHeading(k) == MaxPos({i \in 1..Len(all_lines) : Has(HeadingValue(i), k)})

\* the first line with an age, with a '$N/mo' payment, and the first all-digit
\* line within 3 lines of a 'credit score' label; 0 without one
FirstAge == MinPos({i \in 1..Len(all_lines) : age_match(TextAt(i)) # <<>>})

FirstMonthly == MinPos({i \in 1..Len(all_lines) : monthly_match(TextAt(i)) # <<>>})

FirstScore ==
  MinPos({j \in 1..Len(all_lines) :
            /\ IsDigitStr(TextAt(j))
            /\ \E i \in Max(1, j - 3)..Min(Len(all_lines), j + 3) :
                 Contains(Lower(TextAt(i)), "credit score")})

RECURSIVE HeadingWrites(_)
\* the entries written by the lines from position i on as headings, in
\* document order
HeadingWrites(i) ==
  IF i > Len(all_lines) THEN <<>> ELSE HeadingValue(i) \o HeadingWrites(i + 1)

\* C30: in the returned record every key of the account categories, of
\* collections, of inquiries and of late pays holds what the last line that
\* writes it as a heading computes from its own window, with nothing kept
\* from an earlier heading, and is absent when no line writes it; age,
\* monthly_payments and credit_score hold the value of their first match.
C30_LastHeadingWins ==
  Returned =>
    LET Last(writes, j) ==
          IF j = 0 THEN TRUE
          ELSE Has(rec, writes[j].k) /\ Get(rec, writes[j].k) = writes[j].v
        Agree(writes) ==
          \A k \in HeadingKeys :
            IF \A j \in 1..Len(writes) : writes[j].k # k THEN ~Has(rec, k)
            ELSE Last(writes, MaxPos({j \in 1..Len(writes) : writes[j].k = k}))
    IN /\ Agree(HeadingWrites(1))
       /\ FirstAge # 0 => Get(rec, "age") = IntV(age_match(TextAt(FirstAge))[1])
       /\ FirstMonthly # 0 =>
            Get(rec, "monthly_payments")
              = IntV(ParseInt(OnlyDigits(monthly_match(TextAt(FirstMonthly))[1])))
       /\ FirstScore # 0 => Get(rec, "credit_score") = IntV(ParseInt(TextAt(FirstScore)))

\* the heading 'Late Pays' computed 2 and 43, the 'Lates +2yr' line after it
\* computed 0 and 40 from its own window, and the record holds 0 and 40: the
\* 2 late pays of the last two years are lost
C30_Witness ==
  /\ pc = "returned"
  /\ Len(all_lines) = 4
  /\ Get(HeadingValue(1), "late_pays")
       = DictV(<<Entry("last_2_years", IntV(2)), Entry("last_over_2_years", IntV(43))>>)
  /\ LastHeading("late_pays") = 3
  /\ Get(rec, "late_pays")
       = DictV(<<Entry("last_2_years", IntV(0)), Entry("last_over_2_years", IntV(40))>>)

\* two lines gave an age and the record holds the first; two numbers stood
\* after the score label and the record holds the first
C30_WitnessFirstAge ==
  /\ pc = "returned"
  /\ Texts = <<"Age: 49", "age 50, $12 / mo">>
  /\ Get(rec, "age") = IntV(49)
  /\ Get(rec, "monthly_payments") = IntV(12)

C30_WitnessFirstScore ==
  /\ pc = "returned"
  /\ Texts = <<"Credit Score", "650", "700">>
  /\ Get(rec, "credit_score") = IntV(650)

\* a second collections heading with one number under it rewrote the pair of
\* the first: closed is null, not the 2 found before
C30_WitnessCollections ==
  /\ pc = "returned"
  /\ Len(all_lines) = 4
  /\ Get(HeadingValue(1), "collections_closed") = IntV(2)
  /\ LastHeading("collections") > 1
  /\ Get(rec, "collections_closed") = NoneV

====
